---- MODULE Spec2Model ----
(***************************************************************************)
(* Model of the DBLens migration core:                                     *)
(*   backend/app/utils/migration_engine.py  (MigrationEngine)              *)
(*   backend/app/api/routes/migrations.py   (cancel_migration,             *)
(*                                            run_migration_job)           *)
(***************************************************************************)
EXTENDS Integers, Sequences, FiniteSets, TLC

(***************************************************************************)
(* Names and bounds                                                        *)
(***************************************************************************)

\* the user tables of the source database
TableNames == {"customers", "orders", "items"}

\* a name that is no table of the source (a dangling reference, or a selected
\* name the source does not have)
MissingName == "archive"

SQLITE_INTERNAL_TABLES ==
    {"sqlite_sequence", "sqlite_stat1", "sqlite_stat2", "sqlite_stat3",
     "sqlite_stat4", "sqlite_master"}

MONGO_SYSTEM_COLLECTIONS ==
    {"system.users", "system.version", "system.indexes", "system.profile"}

\* the internal table the source schema lists next to the user tables
InternalName == "sqlite_sequence"

\* every name a foreign key may reference or a user may select
RefNames == TableNames \cup {InternalName, MissingName}

\* the order in which get_schema lists the tables
SchemaOrder == <<"customers", "items", "orders", "sqlite_sequence">>

DbTypes == {"mysql", "postgresql", "mongodb", "sqlite"}

\* at most this many foreign keys in one source schema
MaxFks == 3

\* Python's recursion limit, scaled to the model: a call chain deeper than
\* this raises RecursionError
RecursionLimit == 6

\* rows of one insert batch (batch_size = 1000 in the source, scaled down)
batch_size == 2

\* at most this many injected failures (database errors) in one run
MaxFaults == 2

VARIABLES
    source_db_type,     \* MigrationEngine.source_db_type
    target_db_type,     \* MigrationEngine.target_db_type
    schema_tables,      \* schema["tables"] of the source: list of descriptors
    selected_tables,    \* the user's selection (set of names)
    drop_if_exists,     \* argument of migrate()
    tables_to_migrate,  \* names of the ordered descriptors
    tables_to_include,  \* the closed selection of _resolve_dependencies
    migration_log,      \* MigrationEngine.migration_log
    pc,                 \* position of the run inside migrate()
    step,               \* index of the current loop (schema, data, rollback)
    pending,            \* rows of the current table inserted, not yet committed
    migrated_rows,      \* migrated_rows of migrate()
    error,              \* text of the exception caught by migrate()
    result,             \* value returned by migrate()
    rollback_names,     \* table_names handed to _rollback_tables
    target_tables,      \* tables/collections of the target database
    target_rows,        \* committed rows of each target table
    txn_save,           \* target state at the start of the open transaction
    faults,             \* failures still to be injected
    status,             \* Migration.status as persisted
    cancel_requests,    \* CANCEL_REQUESTS[migration_id]
    snapshot_status,    \* Snapshot.status of the pre-migration snapshot
    jpc,                \* position of run_migration_job
    target_before,      \* history: tables of the target before the run
    created,            \* history: tables created by this run, in order
    rollback_dropped,   \* history: tables the rollback removed, in order
    target_ops,         \* history: kinds of statements executed on the target
    cp_calls,           \* history: invocations of the progress callback
    cp_tables,          \* history: tables whose data checkpoint was passed
    fetched,            \* history: tables whose rows were fetched
    loaded,             \* history: tables whose every batch was inserted
    at_cancel,          \* history: cp_calls, cp_tables, transfer in flight at the cancel
    is_dry_run,         \* argument of run_migration_job
    progress_percentage,\* Migration.progress_percentage as persisted
    progress_log,       \* history: percentages reported to and persisted by the callback
    open_conns,         \* connections opened by the engine or the inspector, not yet closed
    fk_queue,           \* foreign keys the second pass of the schema phase has yet to add
    txn_failed,         \* PostgreSQL: a statement failed in the open transaction
    fk_faults,          \* history: injected failures spent on foreign keys
    fk_issued,          \* history: the foreign keys sent to the target, each with
                        \* the number of tables that had no CREATE TABLE yet
    relationships,      \* the documents of _dblens_relationships in the target
    connections,        \* DatabaseConnection records, by id
    request,            \* MigrationCreate: source_connection_id, target_connection_id
    migrations,         \* Migration records created by create_migration
    response,           \* outcome of create_migration
    inspect_fault,      \* the failure met by SchemaInspector.get_schema, if any
    source_schema,      \* preview_migration: get_schema of the source
    target_schema,      \* preview_migration: get_schema of the target
    preview,            \* value returned by preview_migration
    not_null,           \* the column definition ends with NOT NULL
    CANCEL_REQUESTS,    \* the module-level dictionary, migration id -> bool
    jobs,               \* two run_migration_job tasks, by migration id
    migration,          \* the Migration row a rollback request is about
    rollback_requests,  \* the calls of rollback_migration in progress
    rollback_jobs,      \* the run_rollback_job tasks, in order of creation
    column,             \* DataTypeMapper: the column descriptor (name, type, primary key)
    col_type            \* DataTypeMapper: the type given to the column in the DDL

inputVars == <<source_db_type, target_db_type, schema_tables, selected_tables,
               drop_if_exists, target_before, is_dry_run>>
engineVars == <<tables_to_migrate, tables_to_include, migration_log, pc, step,
                pending, migrated_rows, error, result, rollback_names>>
targetVars == <<target_tables, target_rows, txn_save, created, rollback_dropped,
                target_ops>>
jobVars == <<status, cancel_requests, snapshot_status, jpc>>
histVars == <<cp_calls, cp_tables, fetched, loaded, at_cancel>>
progressVars == <<progress_percentage, progress_log>>
fkVars == <<fk_queue, txn_failed, fk_faults, fk_issued, relationships>>
createVars == <<connections, request, migrations, response>>
previewVars == <<inspect_fault, source_schema, target_schema, preview>>
mapperVars == <<column, col_type, not_null>>
cancelVars == <<CANCEL_REQUESTS, jobs>>
rollbackVars == <<migration, rollback_requests, rollback_jobs>>

vars == <<inputVars, engineVars, targetVars, jobVars, histVars, progressVars,
          open_conns, faults, fkVars, createVars, previewVars, mapperVars, cancelVars, rollbackVars>>

(***************************************************************************)
(* Helpers                                                                 *)
(***************************************************************************)

Range(s) == {s[i] : i \in DOMAIN s}

\* all orders in which a Python set of table names may be iterated
Permutations3(S) ==
    {p \in [1..Cardinality(S) -> S] : \A i, j \in 1..Cardinality(S) : i # j => p[i] # p[j]}

IterOrders == {p \o <<MissingName, InternalName>> : p \in Permutations3(TableNames)}

\* iteration of the set S in the order `order`
SetToSeq(S, order) == SelectSeq(order, LAMBDA x : x \in S)

Names(descs) == [i \in DOMAIN descs |-> descs[i].name]

LogEntry(msg, arg) == [msg |-> msg, arg |-> arg]

Logged(entry) == \E i \in 1..Len(migration_log) : migration_log[i] = entry

(***************************************************************************)
(* MigrationEngine._resolve_dependencies                                   *)
(***************************************************************************)

\* filtered_tables: all_tables without the engine-internal tables
filtered_tables(all_tables, src) ==
    SelectSeq(all_tables,
              LAMBDA t : /\ t.name \notin SQLITE_INTERNAL_TABLES
                         /\ (src = "mongodb" => t.name \notin MONGO_SYSTEM_COLLECTIONS))

\* deps of one table: referenced names, without itself and internal tables
TableDeps(t) ==
    {r \in t.foreign_keys : r # t.name /\ r \notin SQLITE_INTERNAL_TABLES}

\* dependencies: table name -> set of referenced table names
dependencies(all_tables, src) ==
    LET ft == filtered_tables(all_tables, src)
    IN  [n \in Range(Names(ft)) |->
            LET t == CHOOSE d \in Range(ft) : d.name = n
            IN  IF src # "mongodb" THEN TableDeps(t) ELSE {}]

\* add_dependencies(table_name): st = [include, log, error]
RECURSIVE add_dependencies(_, _, _, _, _, _)
RECURSIVE add_dependencies_loop(_, _, _, _, _, _)
\* mutant: the auto-selection message is logged for every dependency met
RECURSIVE add_dependencies_loop_logall(_, _, _, _, _, _)
add_dependencies_loop_logall(deps_seq, st, deps, table_map, order, depth) ==
    IF deps_seq = <<>> THEN st
    ELSE LET dep == Head(deps_seq)
             lg  == [st EXCEPT !.log = Append(@, LogEntry("Auto-selected dependent table", dep))]
             st1 == IF dep \notin st.include /\ dep \in table_map
                    THEN add_dependencies(dep, [lg EXCEPT !.include = @ \cup {dep}],
                                          deps, table_map, order, depth + 1)
                    ELSE IF dep \in table_map THEN lg ELSE st
         IN  add_dependencies_loop_logall(Tail(deps_seq), st1, deps, table_map, order, depth)

add_dependencies_loop(deps_seq, st, deps, table_map, order, depth) ==
    IF deps_seq = <<>> THEN st
    ELSE LET dep == Head(deps_seq)
             st1 == IF dep \notin st.include /\ dep \in table_map
                    THEN add_dependencies(dep,
                             [st EXCEPT !.include = @ \cup {dep},
                                        !.log = Append(@, LogEntry("Auto-selected dependent table", dep))],
                             deps, table_map, order, depth + 1)
                    ELSE st
         IN  add_dependencies_loop(Tail(deps_seq), st1, deps, table_map, order, depth)

\* mutant: the dependencies of an added table are not followed
RECURSIVE add_dependencies_shallow(_, _, _, _, _, _)
add_dependencies_shallow(table_name, st, deps, table_map, order, depth) ==
    IF depth > 1 THEN st
    ELSE IF table_name \in DOMAIN deps
         THEN add_dependencies_loop(SetToSeq(deps[table_name], order), st,
                                    deps, table_map, order, depth)
         ELSE st

add_dependencies(table_name, st, deps, table_map, order, depth) ==
    IF depth > RecursionLimit THEN [st EXCEPT !.error = TRUE]
    ELSE IF table_name \in DOMAIN deps
         THEN add_dependencies_loop(SetToSeq(deps[table_name], order), st,
                                    deps, table_map, order, depth)
         ELSE st

RECURSIVE add_all_dependencies(_, _, _, _, _)
add_all_dependencies(names_seq, st, deps, table_map, order) ==
    IF names_seq = <<>> THEN st
    ELSE add_all_dependencies(Tail(names_seq),
                              add_dependencies(Head(names_seq), st, deps, table_map, order, 1),
                              deps, table_map, order)

\* visit(table_name): vs = [visited, ordered, error]
RECURSIVE visit(_, _, _, _, _, _)
RECURSIVE visit_loop(_, _, _, _, _, _)
visit_loop(deps_seq, vs, deps, include, order, depth) ==
    IF deps_seq = <<>> THEN vs
    ELSE LET dep == Head(deps_seq)
             vs1 == IF dep \in include
                    THEN visit(dep, vs, deps, include, order, depth + 1)
                    ELSE vs
         IN  visit_loop(Tail(deps_seq), vs1, deps, include, order, depth)

\* mutant: a table is appended before the tables it depends on
visit_preorder(table_name, vs, deps, include, order, depth) ==
    IF depth > RecursionLimit THEN [vs EXCEPT !.error = TRUE]
    ELSE IF table_name \in vs.visited THEN vs
    ELSE LET vs0 == [vs EXCEPT !.visited = @ \cup {table_name},
                               !.ordered = Append(@, table_name)]
         IN  IF table_name \in DOMAIN deps
             THEN visit_loop(SetToSeq(deps[table_name], order), vs0,
                             deps, include, order, depth)
             ELSE vs0

\* mutant: no table is ever marked as visited
visit_unmarked(table_name, vs, deps, include, order, depth) ==
    IF depth > RecursionLimit THEN [vs EXCEPT !.error = TRUE]
    ELSE LET vs1 == IF table_name \in DOMAIN deps
                    THEN visit_loop(SetToSeq(deps[table_name], order), vs,
                                    deps, include, order, depth)
                    ELSE vs
         IN  [vs1 EXCEPT !.ordered = Append(@, table_name)]

visit(table_name, vs, deps, include, order, depth) ==
    IF depth > RecursionLimit THEN [vs EXCEPT !.error = TRUE]
    ELSE IF table_name \in vs.visited THEN vs
    ELSE LET vs0 == [vs EXCEPT !.visited = @ \cup {table_name}]
             vs1 == IF table_name \in DOMAIN deps
                    THEN visit_loop(SetToSeq(deps[table_name], order), vs0,
                                    deps, include, order, depth)
                    ELSE vs0
         IN  [vs1 EXCEPT !.ordered = Append(@, table_name)]

RECURSIVE visit_all(_, _, _, _, _)
visit_all(names_seq, vs, deps, include, order) ==
    IF names_seq = <<>> THEN vs
    ELSE visit_all(Tail(names_seq),
                   visit(Head(names_seq), vs, deps, include, order, 1),
                   deps, include, order)

\* the whole function: [tables: ordered names, log, error, include]
resolve_dependencies(all_tables, selected, src, order) ==
    LET ft        == filtered_tables(all_tables, src)
        table_map == Range(Names(ft))
        deps      == dependencies(all_tables, src)
        skipped   == SelectSeq(Names(all_tables),
                               LAMBDA n : src = "mongodb" /\ n \in MONGO_SYSTEM_COLLECTIONS)
        log0      == IF skipped # <<>>
                     THEN <<LogEntry("Skipped MongoDB system collections", skipped)>>
                     ELSE <<>>
        include0  == {t \in selected : t \notin SQLITE_INTERNAL_TABLES}
        st        == add_all_dependencies(SetToSeq(include0, order),
                         [include |-> include0, log |-> log0, error |-> FALSE],
                         deps, table_map, order)
        vs        == visit_all(SetToSeq(st.include, order),
                         [visited |-> {}, ordered |-> <<>>, error |-> FALSE],
                         deps, st.include, order)
    IN  [tables  |-> SelectSeq(vs.ordered, LAMBDA n : n \in table_map),
         log     |-> st.log,
         include |-> st.include,
         error   |-> st.error \/ vs.error]

(***************************************************************************)
(* Source schemas                                                          *)
(***************************************************************************)

\* a schema: every user table with its foreign keys, and the internal table
FkChoices ==
    {f \in [TableNames -> SUBSET RefNames] :
        Cardinality({<<t, r>> \in TableNames \X RefNames : r \in f[t]}) <= MaxFks}

MkSchema(f) ==
    [i \in DOMAIN SchemaOrder |->
        [name |-> SchemaOrder[i],
         foreign_keys |-> IF SchemaOrder[i] \in TableNames THEN f[SchemaOrder[i]] ELSE {}]]

\* the resolver takes one branch for every relational source
ResolveSources == {"mysql", "mongodb"}

(***************************************************************************)
(* Specification of the resolver alone: inputs drawn in InitResolve        *)
(***************************************************************************)

\* the state of a run before run_migration_job has started
RunNotStarted ==
    /\ tables_to_migrate = <<>>
    /\ tables_to_include = {}
    /\ migration_log = <<>>
    /\ step = 0
    /\ pending = 0
    /\ migrated_rows = 0
    /\ error = ""
    /\ result = [success |-> FALSE, error |-> "", total_tables |-> 0, total_rows |-> 0]
    /\ rollback_names = <<>>
    /\ txn_save = [tables |-> {}, rows |-> [n \in RefNames |-> 0]]
    /\ created = <<>>
    /\ rollback_dropped = <<>>
    /\ target_ops = {}
    /\ cancel_requests = FALSE
    /\ snapshot_status = "NONE"
    /\ cp_calls = 0
    /\ cp_tables = {}
    /\ fetched = {}
    /\ loaded = {}
    /\ at_cancel = [accepted |-> FALSE, cp_calls |-> 0, cp_tables |-> {},
                    in_transfer |-> FALSE]
    /\ progress_percentage = 0
    /\ progress_log = <<>>
    /\ open_conns = 0
    /\ fk_queue = <<>>
    /\ txn_failed = FALSE
    /\ fk_faults = 0
    /\ fk_issued = {}
    /\ relationships = <<>>

\* no request to create_migration yet
CreateAtRest ==
    /\ connections = <<>>
    /\ request = [kind |-> "", source_connection_id |-> 0, target_connection_id |-> 0]
    /\ migrations = {}
    /\ response = ""

NoSchema == [success |-> FALSE, tables |-> <<>>]

NoPreview ==
    [tables_to_create |-> <<>>, tables_to_drop |-> <<>>, warnings |-> <<>>,
     existing_tables |-> {}, total_rows |-> 0]

NoFault == [side |-> "none", kind |-> "none", table |-> ""]

\* no request to preview_migration yet
PreviewAtRest ==
    /\ inspect_fault = NoFault
    /\ source_schema = NoSchema
    /\ target_schema = NoSchema
    /\ preview = NoPreview

\* no column handed to the DataTypeMapper yet
MapperAtRest ==
    /\ column = [name |-> "", type |-> <<>>, length |-> "", is_primary_key |-> FALSE,
                 nullable |-> TRUE]
    /\ col_type = <<>>
    /\ not_null = FALSE

\* no second job and no cancel dictionary entry
CancelAtRest ==
    /\ CANCEL_REQUESTS = <<>>
    /\ jobs = <<>>

\* no rollback request
RollbackAtRest ==
    /\ migration = [status |-> "PENDING", can_rollback |-> FALSE,
                    snapshot |-> "NONE", current_step |-> ""]
    /\ rollback_requests = <<>>
    /\ rollback_jobs = <<>>

InitResolve ==
    /\ source_db_type \in ResolveSources
    /\ target_db_type = "postgresql"
    /\ schema_tables \in {MkSchema(f) : f \in FkChoices}
    /\ selected_tables \in SUBSET RefNames
    /\ drop_if_exists = FALSE
    /\ is_dry_run = FALSE
    /\ target_before = {}
    /\ target_tables = {}
    /\ target_rows = [n \in RefNames |-> 0]
    /\ faults = 0
    /\ status = "PENDING"
    /\ jpc = "none"
    /\ pc = "resolve"
    /\ RunNotStarted
    /\ CreateAtRest
    /\ PreviewAtRest
    /\ MapperAtRest
    /\ CancelAtRest
    /\ RollbackAtRest

ResolveCall ==
    /\ pc = "resolve"
    /\ jpc = "none"
    /\ \E order \in IterOrders :
          LET r == resolve_dependencies(schema_tables, selected_tables, source_db_type, order)
          IN  /\ tables_to_migrate' = r.tables
              /\ tables_to_include' = r.include
              /\ migration_log' = migration_log \o r.log
              /\ pc' = IF r.error THEN "recursion_error" ELSE "resolved"
    /\ UNCHANGED <<fkVars, createVars, previewVars, mapperVars, cancelVars, rollbackVars,
                   progressVars, open_conns, inputVars, step, pending, migrated_rows, error, result,
                   rollback_names, targetVars, jobVars, histVars, faults>>

NextResolve == ResolveCall

SpecResolve == InitResolve /\ [][NextResolve]_vars

(***************************************************************************)
(* MigrationEngine.migrate and run_migration_job                           *)
(***************************************************************************)

\* _can_use_native_migration
Native == source_db_type = target_db_type

CancelText == "Migration cancelled by user"
SchemaFetchText == "Failed to get schema"
CallbackText == "Progress callback failed"
SchemaText == "Schema creation failed"
DataText == "Data transfer failed"
UndefinedTableText == "relation does not exist"
RecursionText == "maximum recursion depth exceeded"

\* rows of each source table
SourceRows ==
    ("customers" :> 3) @@ ("orders" :> 2) @@ ("items" :> 0) @@
    (InternalName :> 1) @@ (MissingName :> 0)

Min(a, b) == IF a < b THEN a ELSE b

CurrentTable == tables_to_migrate[step]

\* the progress callbacks of migrate(), by position
CheckpointPcs == {"cp_fetch", "cp_analyze", "cp_schema", "cp_data", "cp_done"}

AfterCheckpoint(p) ==
    CASE p = "cp_fetch"   -> "get_schema"
      [] p = "cp_analyze" -> "resolve"
      [] p = "cp_schema"  -> "schema_begin"
      [] p = "cp_data"    -> "fetch"
      [] p = "cp_done"    -> "return_ok"

\* after the data loop: the cross path logs the completion and reports 100 %,
\* the native path returns
EndOfData == IF Native THEN "return_ok" ELSE "log_completed"

\* mutant: the cancel flag is looked at by the first callback only
CancelRequestedFirstOnly(flag, p) == flag /\ p = "cp_fetch"

\* update_progress: CANCEL_REQUESTS.get(migration_id)
CancelRequested(flag, p) == flag

\* mutant: a failed rollback replaces the error of the result
FailureResultMasked(e, rollback_error) ==
    [success |-> FALSE,
     error |-> IF rollback_error # "" THEN rollback_error ELSE e,
     total_tables |-> 0, total_rows |-> 0]

\* the failure result of migrate(): error is str(e) of the caught exception
FailureResult(e, rollback_error) ==
    [success |-> FALSE, error |-> e, total_tables |-> 0, total_rows |-> 0]

\* raise Exception(e) inside the try block of migrate()
Raise(e) ==
    /\ error' = e
    /\ pc' = "failed"

\* one percent, in the unit in which the model keeps percentages: the
\* fractions 50 * idx / len and 0.9 * p of the source are whole in it
Percent == 60

\* the percentage migrate() hands to progress_callback at position p
ReportedPercentage(p) ==
    CASE p = "cp_fetch"   -> 10 * Percent
      [] p = "cp_analyze" -> 20 * Percent
      [] p = "cp_schema"  -> 30 * Percent
      [] p = "cp_data"    -> 40 * Percent +
                             (50 * Percent * (step - 1)) \div Len(tables_to_migrate)
      [] p = "cp_done"    -> 100 * Percent

\* mutant: the reported percentage is added to the 10 of the snapshot phase
adjusted_percentage_unscaled(percentage) == 10 * Percent + percentage

\* update_progress: adjusted_percentage = 10 + (percentage * 0.9)
adjusted_percentage(percentage) == 10 * Percent + (percentage * 9) \div 10

\* mutant: the connection is closed only when the block ends without an
\* exception
CloseOnSuccessOnly(n, failed) == IF failed THEN n ELSE n - 1

\* finally: if conn: conn.close() (or the exit of async with): the connection
\* is closed whether or not the block raised
CloseOnExit(n, failed) == n - 1

\* the positions at which the connection of the schema phase is open
SchemaLoopPcs ==
    {"schema_drop", "schema_create", "schema_relationships", "schema_fks_begin",
     "schema_fks"}

\* --- run_migration_job ----------------------------------------------------

JobStart ==
    /\ jpc = "pending"
    /\ status' = "IN_PROGRESS"
    /\ jpc' = "cancel_check"
    /\ progress_percentage' = 5 * Percent
    /\ UNCHANGED progress_log
    /\ UNCHANGED <<fkVars, createVars, previewVars, mapperVars, cancelVars, rollbackVars,
                   open_conns, inputVars, engineVars, targetVars, histVars, faults,
                   cancel_requests, snapshot_status>>

JobCancelCheck ==
    /\ jpc = "cancel_check"
    /\ IF cancel_requests
       THEN /\ cancel_requests' = FALSE
            /\ status' = "CANCELLED"
            /\ jpc' = "done"
       ELSE /\ jpc' = "snapshot"
            /\ UNCHANGED <<cancel_requests, status>>
    /\ UNCHANGED <<fkVars, createVars, previewVars, mapperVars, cancelVars, rollbackVars,
                   progressVars, open_conns, inputVars, engineVars, targetVars, histVars, faults,
                   snapshot_status>>

JobSnapshot ==
    /\ jpc = "snapshot"
    /\ IF is_dry_run
       THEN UNCHANGED <<snapshot_status, progress_percentage>>
       ELSE /\ \E ok \in BOOLEAN :
                  snapshot_status' = IF ok THEN "COMPLETED" ELSE "FAILED"
            /\ progress_percentage' = 10 * Percent
    /\ UNCHANGED progress_log
    /\ jpc' = "engine"
    /\ pc' = "start"
    /\ UNCHANGED <<fkVars, createVars, previewVars, mapperVars, cancelVars, rollbackVars,
                   open_conns, inputVars, tables_to_migrate, tables_to_include, migration_log,
                   step, pending, migrated_rows, error, result, rollback_names,
                   targetVars, histVars, faults, status, cancel_requests>>

JobFinish ==
    /\ jpc = "engine"
    /\ pc = "done"
    /\ status' = IF result.success THEN "COMPLETED" ELSE "FAILED"
    /\ jpc' = "done"
    /\ progress_percentage' = IF result.success THEN 100 * Percent
                               ELSE progress_percentage
    /\ UNCHANGED progress_log
    /\ UNCHANGED <<fkVars, createVars, previewVars, mapperVars, cancelVars, rollbackVars,
                   open_conns, inputVars, engineVars, targetVars, histVars, faults,
                   cancel_requests, snapshot_status>>

\* --- cancel_migration -----------------------------------------------------

CancelMigration ==
    /\ jpc \in {"cancel_check", "snapshot", "engine", "done"}
    /\ status = "IN_PROGRESS"
    /\ cancel_requests' = TRUE
    /\ status' = "CANCELLED"
    /\ at_cancel' = [accepted |-> TRUE, cp_calls |-> cp_calls, cp_tables |-> cp_tables,
                    in_transfer |-> pc \in {"fetch", "insert"}]
    /\ UNCHANGED <<fkVars, createVars, previewVars, mapperVars, cancelVars, rollbackVars,
                   progressVars, open_conns, inputVars, engineVars, targetVars, faults, snapshot_status, jpc,
                   cp_calls, cp_tables, fetched, loaded>>

\* --- migrate(): steps before the schema phase -------------------------------

MigrateStart ==
    /\ jpc = "engine"
    /\ pc = "start"
    /\ migration_log' = migration_log \o
          (<<LogEntry("Migration started", "")>> \o
           IF Native THEN <<LogEntry("Using optimized native migration", "")>> ELSE <<>>)
    /\ pc' = "cp_fetch"
    /\ UNCHANGED <<fkVars, createVars, previewVars, mapperVars, cancelVars, rollbackVars,
                   progressVars, open_conns, inputVars, tables_to_migrate, tables_to_include, step, pending,
                   migrated_rows, error, result, rollback_names, targetVars,
                   jobVars, histVars, faults>>

UpdateProgressCancelled ==
    /\ jpc = "engine"
    /\ pc \in CheckpointPcs
    /\ CancelRequested(cancel_requests, pc)
    /\ cancel_requests' = FALSE
    /\ cp_calls' = cp_calls + 1
    /\ Raise(CancelText)
    /\ UNCHANGED <<fkVars, createVars, previewVars, mapperVars, cancelVars, rollbackVars,
                   progressVars, open_conns, inputVars, tables_to_migrate, tables_to_include, migration_log,
                   step, pending, migrated_rows, result, rollback_names, targetVars,
                   status, snapshot_status, jpc, cp_tables, fetched, loaded,
                   at_cancel, faults>>

UpdateProgressOk ==
    /\ jpc = "engine"
    /\ pc \in CheckpointPcs
    /\ ~CancelRequested(cancel_requests, pc)
    /\ cp_calls' = cp_calls + 1
    /\ cp_tables' = IF pc = "cp_data" THEN cp_tables \cup {CurrentTable} ELSE cp_tables
    /\ pc' = AfterCheckpoint(pc)
    /\ progress_percentage' = adjusted_percentage(ReportedPercentage(pc))
    /\ progress_log' = Append(progress_log,
                              [reported |-> ReportedPercentage(pc),
                               persisted |-> adjusted_percentage(ReportedPercentage(pc))])
    /\ UNCHANGED <<fkVars, createVars, previewVars, mapperVars, cancelVars, rollbackVars,
                   open_conns, inputVars, tables_to_migrate, tables_to_include, migration_log,
                   step, pending, migrated_rows, error, result, rollback_names,
                   targetVars, jobVars, fetched, loaded, at_cancel, faults>>

UpdateProgressFails ==
    /\ jpc = "engine"
    /\ pc \in CheckpointPcs
    /\ ~CancelRequested(cancel_requests, pc)
    /\ faults > 0
    /\ faults' = faults - 1
    /\ cp_calls' = cp_calls + 1
    /\ Raise(CallbackText)
    /\ UNCHANGED <<fkVars, createVars, previewVars, mapperVars, cancelVars, rollbackVars,
                   progressVars, open_conns, inputVars, tables_to_migrate, tables_to_include, migration_log,
                   step, pending, migrated_rows, result, rollback_names, targetVars,
                   jobVars, cp_tables, fetched, loaded, at_cancel>>

GetSchemaOk ==
    /\ jpc = "engine"
    /\ pc = "get_schema"
    /\ pc' = IF Native THEN "native_filter" ELSE "cp_analyze"
    /\ open_conns' = CloseOnExit(open_conns + 1, FALSE)
    /\ UNCHANGED <<fkVars, createVars, previewVars, mapperVars, cancelVars, rollbackVars,
                   progressVars, inputVars, tables_to_migrate, tables_to_include, migration_log,
                   step, pending, migrated_rows, error, result, rollback_names,
                   targetVars, jobVars, histVars, faults>>

GetSchemaFails ==
    /\ jpc = "engine"
    /\ pc = "get_schema"
    /\ faults > 0
    /\ faults' = faults - 1
    /\ Raise(SchemaFetchText)
    /\ \E connected \in BOOLEAN :
          open_conns' = IF connected THEN CloseOnExit(open_conns + 1, TRUE)
                        ELSE open_conns
    /\ UNCHANGED <<fkVars, createVars, previewVars, mapperVars, cancelVars, rollbackVars,
                   progressVars, inputVars, tables_to_migrate, tables_to_include, migration_log,
                   step, pending, migrated_rows, result, rollback_names, targetVars,
                   jobVars, histVars>>

\* cross path: tables_to_migrate = self._resolve_dependencies(...)
EngineResolve ==
    /\ jpc = "engine"
    /\ pc = "resolve"
    /\ \E order \in IterOrders :
          LET r == resolve_dependencies(schema_tables, selected_tables, source_db_type, order)
          IN  /\ tables_to_migrate' = r.tables
              /\ tables_to_include' = r.include
              /\ migration_log' = migration_log \o r.log
              /\ pc' = IF r.error THEN "failed" ELSE "cp_schema"
              /\ error' = IF r.error THEN RecursionText ELSE error
    /\ UNCHANGED <<fkVars, createVars, previewVars, mapperVars, cancelVars, rollbackVars,
                   progressVars, open_conns, inputVars, step, pending, migrated_rows, result, rollback_names,
                   targetVars, jobVars, histVars, faults>>

\* native path: [t for t in schema["tables"] if t["name"] in selected_tables]
NativeFilter ==
    /\ jpc = "engine"
    /\ pc = "native_filter"
    /\ tables_to_migrate' =
          Names(SelectSeq(schema_tables,
                LAMBDA t : /\ t.name \in selected_tables
                           /\ (source_db_type = "sqlite" => t.name # "sqlite_sequence")))
    /\ pc' = "cp_schema"
    /\ UNCHANGED <<fkVars, createVars, previewVars, mapperVars, cancelVars, rollbackVars,
                   progressVars, open_conns, inputVars, tables_to_include, migration_log, step, pending,
                   migrated_rows, error, result, rollback_names, targetVars,
                   jobVars, histVars, faults>>

\* --- schema phase: _migrate_schema_<target> ---------------------------------

TargetState == [tables |-> target_tables, rows |-> target_rows]

\* the statements before the data loop are over: enter the loop or leave it
DataLoopStart == IF tables_to_migrate = <<>> THEN EndOfData ELSE "cp_data"

\* the collection in which a MongoDB target keeps the foreign keys
RelationshipsName == "_dblens_relationships"

\* after the loop over the tables: MongoDB stores the relationships of a
\* relational source
AfterCreateLoop ==
    IF target_db_type = "mongodb" /\ source_db_type # "mongodb"
    THEN "schema_relationships"
    ELSE IF target_db_type \in {"postgresql", "mysql"} /\ source_db_type # "mongodb"
    THEN "schema_fks_begin"
    ELSE DataLoopStart

\* connect to the target; PostgreSQL opens the transaction of the schema phase
SchemaBegin ==
    /\ jpc = "engine"
    /\ pc = "schema_begin"
    /\ txn_save' = IF target_db_type = "postgresql" THEN TargetState ELSE txn_save
    /\ pc' = IF tables_to_migrate = <<>> THEN AfterCreateLoop
             ELSE IF target_db_type = "mysql" /\ drop_if_exists THEN "schema_drop"
             ELSE "schema_create"
    /\ step' = 1
    /\ open_conns' = IF pc' \in SchemaLoopPcs THEN open_conns + 1
                      ELSE CloseOnExit(open_conns + 1, FALSE)
    /\ UNCHANGED <<fkVars, createVars, previewVars, mapperVars, cancelVars, rollbackVars,
                   progressVars, inputVars, tables_to_migrate, tables_to_include, migration_log,
                   pending, migrated_rows, error, result, rollback_names,
                   target_tables, target_rows, created, rollback_dropped, target_ops,
                   jobVars, histVars, faults>>

\* MySQL, drop_if_exists: DROP TABLE IF EXISTS for every table, before any CREATE
SchemaDropStep ==
    /\ jpc = "engine"
    /\ pc = "schema_drop"
    /\ target_tables' = target_tables \ {CurrentTable}
    /\ target_rows' = [target_rows EXCEPT ![CurrentTable] = 0]
    /\ target_ops' = target_ops \cup {"drop"}
    /\ migration_log' = Append(migration_log, LogEntry("Dropped existing table", CurrentTable))
    /\ IF step = Len(tables_to_migrate)
       THEN pc' = "schema_create" /\ step' = 1
       ELSE pc' = pc /\ step' = step + 1
    /\ open_conns' = IF pc' \in SchemaLoopPcs THEN open_conns
                      ELSE CloseOnExit(open_conns, FALSE)
    /\ UNCHANGED <<fkVars, createVars, previewVars, mapperVars, cancelVars, rollbackVars,
                   progressVars, inputVars, tables_to_migrate, tables_to_include, pending,
                   migrated_rows, error, result, rollback_names, txn_save, created,
                   rollback_dropped, jobVars, histVars, faults>>

\* the DROP that precedes the CREATE of one table (PostgreSQL, SQLite: DROP TABLE
\* IF EXISTS when drop_if_exists; MongoDB: drop() of an existing collection)
DropStatementRuns(t) ==
    /\ drop_if_exists
    /\ \/ target_db_type \in {"postgresql", "sqlite"}
       \/ target_db_type = "mongodb" /\ t \in target_tables

TablesAfterDrop(t) == IF DropStatementRuns(t) THEN target_tables \ {t} ELSE target_tables

RowsAfterDrop(t) ==
    IF DropStatementRuns(t) THEN [target_rows EXCEPT ![t] = 0] ELSE target_rows

\* MongoDB without drop_if_exists: an existing collection is skipped
SkipsExisting(t) ==
    target_db_type = "mongodb" /\ t \in target_tables /\ ~drop_if_exists

\* CREATE TABLE of a table that exists fails
CreateFindsTable(t) == ~SkipsExisting(t) /\ t \in TablesAfterDrop(t)

\* the descriptor of a table of the source schema
SchemaTable(table_name) == CHOOSE d \in Range(schema_tables) : d.name = table_name

RECURSIVE ForeignKeys(_)
\* for table in tables: for fk in table.get("foreign_keys", [])
ForeignKeys(names) ==
    IF names = <<>> THEN <<>>
    ELSE LET refs == SetToSeq(SchemaTable(Head(names)).foreign_keys,
                               SchemaOrder \o <<MissingName>>)
         IN  [i \in DOMAIN refs |-> [table |-> Head(names), ref |-> refs[i]]] \o
             ForeignKeys(Tail(names))

\* fk_name, without the column names
FkName(fk) == "fk_" \o fk.table \o "_ref_" \o fk.ref

\* the number of tables of the ordered list, other than table_name, whose
\* CREATE TABLE has not run yet
MissingCreates(table_name) ==
    Cardinality({i \in DOMAIN tables_to_migrate :
                    /\ tables_to_migrate[i] # table_name
                    /\ ~Logged(LogEntry("Created table", tables_to_migrate[i]))})

\* mutant: only the tables whose collection was created in this run
RelationshipTablesCreatedOnly(names) == SelectSeq(names, LAMBDA t : t \in Range(created))

\* the second `for table in tables` of _migrate_schema_mongodb: every table,
\* a skipped one too
RelationshipTables(names) == names

\* the documents inserted into _dblens_relationships (the field names are not
\* part of the model's foreign keys)
RelationshipDocs(names) ==
    [i \in DOMAIN ForeignKeys(names) |->
        [from_collection |-> ForeignKeys(names)[i].table,
         to_collection |-> ForeignKeys(names)[i].ref]]

\* mutant: the loop over the tables is left after its first table
AdvanceSchemaFirstOnly == pc' = AfterCreateLoop /\ step' = 1

\* mutant: the loop over the tables is left before its last table
AdvanceSchemaBeforeLast ==
    IF step >= Len(tables_to_migrate) - 1
    THEN pc' = AfterCreateLoop /\ step' = 1
    ELSE pc' = pc /\ step' = step + 1

\* the end of one iteration of `for table in tables`
AdvanceSchema ==
    IF step = Len(tables_to_migrate)
    THEN pc' = AfterCreateLoop /\ step' = 1
    ELSE pc' = pc /\ step' = step + 1

SchemaSkipExisting ==
    /\ jpc = "engine"
    /\ pc = "schema_create"
    /\ SkipsExisting(CurrentTable)
    /\ migration_log' = Append(migration_log, LogEntry("Collection exists (skipping)", CurrentTable))
    /\ AdvanceSchema
    /\ open_conns' = IF pc' \in SchemaLoopPcs THEN open_conns
                      ELSE CloseOnExit(open_conns, FALSE)
    /\ UNCHANGED <<fkVars, createVars, previewVars, mapperVars, cancelVars, rollbackVars,
                   progressVars, inputVars, tables_to_migrate, tables_to_include, pending,
                   migrated_rows, error, result, rollback_names, targetVars,
                   jobVars, histVars, faults>>

SchemaCreateTable ==
    /\ jpc = "engine"
    /\ pc = "schema_create"
    /\ ~SkipsExisting(CurrentTable)
    /\ ~CreateFindsTable(CurrentTable)
    /\ target_tables' = TablesAfterDrop(CurrentTable) \cup {CurrentTable}
    /\ target_rows' = [target_rows EXCEPT ![CurrentTable] = 0]
    /\ created' = Append(created, CurrentTable)
    /\ target_ops' = target_ops \cup {"create"} \cup
                     (IF DropStatementRuns(CurrentTable) THEN {"drop"} ELSE {})
    /\ migration_log' = Append(migration_log, LogEntry("Created table", CurrentTable))
    /\ fk_issued' = IF target_db_type = "sqlite"
                    THEN fk_issued \cup
                         {[table |-> CurrentTable, ref |-> r,
                           missing |-> MissingCreates(CurrentTable)] :
                              r \in SchemaTable(CurrentTable).foreign_keys}
                    ELSE fk_issued
    /\ AdvanceSchema
    /\ open_conns' = IF pc' \in SchemaLoopPcs THEN open_conns
                      ELSE CloseOnExit(open_conns, FALSE)
    /\ UNCHANGED <<fk_queue, txn_failed, fk_faults, relationships, createVars, previewVars, mapperVars, cancelVars, rollbackVars,
                   progressVars, inputVars, tables_to_migrate, tables_to_include, pending,
                   migrated_rows, error, result, rollback_names, txn_save,
                   rollback_dropped, jobVars, histVars, faults>>

\* MongoDB target, other source: _dblens_relationships is dropped if it exists
\* and created again, and gets one document for every foreign key
SchemaRelationships ==
    /\ jpc = "engine"
    /\ pc = "schema_relationships"
    /\ relationships' = RelationshipDocs(RelationshipTables(tables_to_migrate))
    /\ migration_log' = IF relationships' # <<>>
                        THEN Append(migration_log, LogEntry("Stored relationships", ""))
                        ELSE migration_log
    /\ target_tables' = target_tables \cup {RelationshipsName}
    /\ created' = Append(created, RelationshipsName)
    /\ target_ops' = target_ops \cup {"create"} \cup
                     (IF RelationshipsName \in target_tables THEN {"drop"} ELSE {})
    /\ pc' = DataLoopStart
    /\ open_conns' = IF pc' \in SchemaLoopPcs THEN open_conns
                      ELSE CloseOnExit(open_conns, FALSE)
    /\ UNCHANGED <<fk_queue, txn_failed, fk_faults, fk_issued, createVars,
                   previewVars, mapperVars, cancelVars, rollbackVars, progressVars, inputVars,
                   tables_to_migrate, tables_to_include, step, pending,
                   migrated_rows, error, result, rollback_names, target_rows,
                   txn_save, rollback_dropped, jobVars, histVars, faults>>

\* PostgreSQL, MySQL; relational source: total_fks and its log entry
SchemaFksBegin ==
    /\ jpc = "engine"
    /\ pc = "schema_fks_begin"
    /\ fk_queue' = ForeignKeys(tables_to_migrate)
    /\ migration_log' = IF ForeignKeys(tables_to_migrate) # <<>>
                        THEN Append(migration_log, LogEntry("Adding foreign keys", ""))
                        ELSE migration_log
    /\ pc' = "schema_fks"
    /\ UNCHANGED <<inputVars, tables_to_migrate, tables_to_include, step, pending,
                   migrated_rows, error, result, rollback_names, targetVars, jobVars,
                   histVars, progressVars, open_conns, faults, txn_failed, fk_faults,
                   fk_issued, relationships,
                   createVars, previewVars, mapperVars, cancelVars, rollbackVars>>

\* the ALTER TABLE of PostgreSQL fails when the referenced table does not
\* exist, and every statement fails once the transaction is aborted
FkFailsByItself(fk) ==
    target_db_type = "postgresql" /\ (fk.ref \notin target_tables \/ txn_failed)

\* ALTER TABLE ... ADD CONSTRAINT ... FOREIGN KEY inside try / except: a
\* failure is logged and the loop goes on
SchemaAddForeignKey ==
    /\ jpc = "engine"
    /\ pc = "schema_fks"
    /\ fk_queue # <<>>
    /\ LET fk == Head(fk_queue)
       IN  \/ /\ ~FkFailsByItself(fk)
              /\ migration_log' = Append(migration_log, LogEntry("Created FK", FkName(fk)))
              /\ target_ops' = target_ops \cup {"alter"}
              /\ UNCHANGED <<txn_failed, faults, fk_faults>>
           \/ /\ IF FkFailsByItself(fk)
                 THEN UNCHANGED <<faults, fk_faults>>
                 ELSE faults > 0 /\ faults' = faults - 1 /\ fk_faults' = fk_faults + 1
              /\ migration_log' = Append(migration_log, LogEntry("FK failed", FkName(fk)))
              /\ txn_failed' = (target_db_type = "postgresql")
              /\ UNCHANGED target_ops
    /\ fk_queue' = Tail(fk_queue)
    /\ fk_issued' = fk_issued \cup
          {[table |-> Head(fk_queue).table, ref |-> Head(fk_queue).ref,
            missing |-> MissingCreates(Head(fk_queue).table)]}
    /\ UNCHANGED <<relationships, inputVars, tables_to_migrate, tables_to_include, pc, step, pending,
                   migrated_rows, error, result, rollback_names, target_tables,
                   target_rows, txn_save, created, rollback_dropped, jobVars, histVars,
                   progressVars, open_conns, createVars, previewVars, mapperVars, cancelVars, rollbackVars>>

\* the end of the foreign-key pass. PostgreSQL leaves the transaction block:
\* the COMMIT of an aborted transaction rolls it back without an error, and the
\* tables created in it are gone. MySQL commits.
SchemaFksEnd ==
    /\ jpc = "engine"
    /\ pc = "schema_fks"
    /\ fk_queue = <<>>
    /\ IF txn_failed
       THEN /\ target_tables' = txn_save.tables
            /\ target_rows' = txn_save.rows
            /\ created' = <<>>
       ELSE UNCHANGED <<target_tables, target_rows, created>>
    /\ txn_failed' = FALSE
    /\ pc' = DataLoopStart
    /\ open_conns' = CloseOnExit(open_conns, FALSE)
    /\ UNCHANGED <<inputVars, tables_to_migrate, tables_to_include, migration_log,
                   step, pending, migrated_rows, error, result, rollback_names,
                   txn_save, rollback_dropped, target_ops, jobVars, histVars,
                   progressVars, faults, fk_queue, fk_faults, fk_issued,
                   relationships, createVars, previewVars,
                   mapperVars, cancelVars, rollbackVars>>

\* a statement of the schema phase fails: the connection, a DROP of the MySQL
\* pass, or a CREATE (the table exists, or an injected database error).
\* PostgreSQL rolls its transaction back; the others keep what was executed.
SchemaStatementFails ==
    /\ jpc = "engine"
    /\ \/ /\ pc = "schema_create"
          /\ ~SkipsExisting(CurrentTable)
          /\ IF CreateFindsTable(CurrentTable)
             THEN UNCHANGED faults
             ELSE faults > 0 /\ faults' = faults - 1
          /\ IF target_db_type = "postgresql"
             THEN /\ target_tables' = txn_save.tables
                  /\ target_rows' = txn_save.rows
                  /\ created' = <<>>
                  /\ UNCHANGED target_ops
             ELSE /\ target_tables' = TablesAfterDrop(CurrentTable)
                  /\ target_rows' = RowsAfterDrop(CurrentTable)
                  /\ target_ops' = target_ops \cup
                        (IF DropStatementRuns(CurrentTable) THEN {"drop"} ELSE {})
                  /\ UNCHANGED created
       \/ /\ pc \in {"schema_begin", "schema_drop", "schema_relationships"}
          /\ faults > 0
          /\ faults' = faults - 1
          /\ UNCHANGED <<target_tables, target_rows, created, target_ops>>
    /\ Raise(SchemaText)
    /\ open_conns' = IF pc = "schema_begin" THEN open_conns
                      ELSE CloseOnExit(open_conns, TRUE)
    /\ UNCHANGED <<fkVars, createVars, previewVars, mapperVars, cancelVars, rollbackVars,
                   progressVars, inputVars, tables_to_migrate, tables_to_include, migration_log,
                   step, pending, migrated_rows, result, rollback_names, txn_save,
                   rollback_dropped, jobVars, histVars>>

\* --- data phase: _migrate_table_data ----------------------------------------

AdvanceData ==
    IF step = Len(tables_to_migrate)
    THEN pc' = EndOfData /\ step' = step
    ELSE pc' = "cp_data" /\ step' = step + 1

\* rows = await self._fetch_source_data(...); no rows: return 0
FetchSourceData ==
    /\ jpc = "engine"
    /\ pc = "fetch"
    /\ fetched' = fetched \cup {CurrentTable}
    /\ IF SourceRows[CurrentTable] = 0
       THEN /\ loaded' = loaded \cup {CurrentTable}
            /\ migration_log' = Append(migration_log, LogEntry("No data found", CurrentTable))
            /\ AdvanceData
       ELSE /\ pc' = "insert"
            /\ UNCHANGED <<loaded, migration_log, step>>
    /\ pending' = 0
    /\ open_conns' = CloseOnExit(open_conns + 1, FALSE)
    /\ UNCHANGED <<fkVars, createVars, previewVars, mapperVars, cancelVars, rollbackVars,
                   progressVars, inputVars, tables_to_migrate, tables_to_include, migrated_rows,
                   error, result, rollback_names, targetVars, jobVars, cp_calls,
                   cp_tables, at_cancel, faults>>

\* an INSERT needs its table; insert_many of MongoDB creates the collection
TargetHasTable(t) == target_db_type = "mongodb" \/ t \in target_tables

\* one executemany of a batch (MongoDB: one insert_many of all rows); the
\* last batch is followed by the commit
InsertBatch ==
    /\ jpc = "engine"
    /\ pc = "insert"
    /\ TargetHasTable(CurrentTable)
    /\ LET n    == SourceRows[CurrentTable]
           sent == IF target_db_type = "mongodb" THEN n
                   ELSE Min(pending + batch_size, n)
       IN  IF sent = n
           THEN /\ target_rows' = [target_rows EXCEPT ![CurrentTable] = @ + n]
                /\ loaded' = loaded \cup {CurrentTable}
                /\ migrated_rows' = migrated_rows + n
                /\ pending' = 0
                /\ migration_log' = Append(migration_log, LogEntry("rows migrated", CurrentTable))
                /\ AdvanceData
           ELSE /\ pending' = sent
                /\ UNCHANGED <<target_rows, loaded, migrated_rows, migration_log, pc, step>>
    /\ target_ops' = target_ops \cup {"insert"}
    /\ LET opened == IF pending = 0 THEN open_conns + 1 ELSE open_conns
       IN  open_conns' = IF pc' = "insert" THEN opened
                         ELSE CloseOnExit(opened, FALSE)
    /\ UNCHANGED <<fkVars, createVars, previewVars, mapperVars, cancelVars, rollbackVars,
                   progressVars, inputVars, tables_to_migrate, tables_to_include, error, result,
                   rollback_names, target_tables, txn_save, created, rollback_dropped,
                   jobVars, cp_calls, cp_tables, fetched, at_cancel, faults>>

\* the fetch or an insert fails: the uncommitted rows of the table are lost
DataTransferFails ==
    /\ jpc = "engine"
    /\ pc \in {"fetch", "insert"}
    /\ IF pc = "insert" /\ ~TargetHasTable(CurrentTable)
       THEN UNCHANGED faults
       ELSE faults > 0 /\ faults' = faults - 1
    /\ fetched' = fetched \cup {CurrentTable}
    /\ pending' = 0
    /\ Raise(IF pc = "insert" /\ ~TargetHasTable(CurrentTable)
             THEN UndefinedTableText ELSE DataText)
    /\ open_conns' = IF pc = "insert" /\ pending > 0
                      THEN CloseOnExit(open_conns, TRUE)
                      ELSE CloseOnExit(open_conns + 1, TRUE)
    /\ UNCHANGED <<fkVars, createVars, previewVars, mapperVars, cancelVars, rollbackVars,
                   progressVars, inputVars, tables_to_migrate, tables_to_include, migration_log,
                   step, migrated_rows, result, rollback_names, targetVars, jobVars,
                   cp_calls, cp_tables, loaded, at_cancel>>

\* cross path: self.log("Migration completed in ...") precedes the last callback
LogCompleted ==
    /\ jpc = "engine"
    /\ pc = "log_completed"
    /\ migration_log' = Append(migration_log, LogEntry("Migration completed", ""))
    /\ pc' = "cp_done"
    /\ UNCHANGED <<fkVars, createVars, previewVars, mapperVars, cancelVars, rollbackVars,
                   progressVars, open_conns, inputVars, tables_to_migrate, tables_to_include, step, pending,
                   migrated_rows, error, result, rollback_names, targetVars, jobVars,
                   histVars, faults>>

\* mutant: the statistics count the tables where they should count the rows
SuccessResultCountsTables(tables, rows) ==
    [success |-> TRUE, error |-> "", total_tables |-> Len(tables),
     total_rows |-> Len(tables)]

\* the success result of migrate(): statistics.total_tables and total_rows
SuccessResult(tables, rows) ==
    [success |-> TRUE, error |-> "", total_tables |-> Len(tables),
     total_rows |-> rows]

ReturnSuccess ==
    /\ jpc = "engine"
    /\ pc = "return_ok"
    /\ migration_log' = IF Native
                        THEN Append(migration_log, LogEntry("Native migration completed", ""))
                        ELSE migration_log
    /\ result' = SuccessResult(tables_to_migrate, migrated_rows)
    /\ pc' = "done"
    /\ UNCHANGED <<fkVars, createVars, previewVars, mapperVars, cancelVars, rollbackVars,
                   progressVars, open_conns, inputVars, tables_to_migrate, tables_to_include, step, pending,
                   migrated_rows, error, rollback_names, targetVars, jobVars,
                   histVars, faults>>

\* --- except Exception as e: log, rollback, failure result --------------------

\* table_names of the except block. On the native path the list of
\* _native_migrate_<type> is local to it, and migrate() still has its own [].
RollbackTableNames(order) ==
    IF ~Native /\ tables_to_migrate # <<>>
    THEN tables_to_migrate
    ELSE SetToSeq(selected_tables, order)

HandleFailure ==
    /\ jpc = "engine"
    /\ pc = "failed"
    /\ migration_log' = migration_log \o
          ((IF Native THEN <<LogEntry("Native migration failed", error)>> ELSE <<>>) \o
           <<LogEntry("Migration failed", error), LogEntry("Attempting rollback", "")>>)
    /\ \E order \in IterOrders :
          /\ rollback_names' = RollbackTableNames(order)
          /\ step' = Len(RollbackTableNames(order))
    /\ txn_save' = IF target_db_type = "postgresql" THEN TargetState ELSE txn_save
    /\ pc' = "rollback"
    /\ open_conns' = open_conns + 1
    /\ UNCHANGED <<fkVars, createVars, previewVars, mapperVars, cancelVars, rollbackVars,
                   progressVars, inputVars, tables_to_migrate, tables_to_include, pending,
                   migrated_rows, error, result, target_tables, target_rows, created,
                   rollback_dropped, target_ops, jobVars, histVars, faults>>

\* for table_name in reversed(table_names): DROP TABLE IF EXISTS / drop()
RollbackStep ==
    /\ jpc = "engine"
    /\ pc = "rollback"
    /\ step >= 1
    /\ LET t == rollback_names[step]
       IN  /\ target_tables' = target_tables \ {t}
           /\ target_rows' = [target_rows EXCEPT ![t] = 0]
           /\ rollback_dropped' = IF t \in target_tables
                                  THEN Append(rollback_dropped, t)
                                  ELSE rollback_dropped
           /\ migration_log' = Append(migration_log, LogEntry("Dropped table", t))
    /\ target_ops' = target_ops \cup {"drop"}
    /\ step' = step - 1
    /\ UNCHANGED <<fkVars, createVars, previewVars, mapperVars, cancelVars, rollbackVars,
                   progressVars, open_conns, inputVars, tables_to_migrate, tables_to_include, pc, pending,
                   migrated_rows, error, result, rollback_names, txn_save, created,
                   jobVars, histVars, faults>>

RollbackCompletes ==
    /\ jpc = "engine"
    /\ pc = "rollback"
    /\ step = 0
    /\ migration_log' = Append(migration_log, LogEntry("Rollback completed", ""))
    /\ result' = FailureResult(error, "")
    /\ pc' = "done"
    /\ open_conns' = CloseOnExit(open_conns, FALSE)
    /\ UNCHANGED <<fkVars, createVars, previewVars, mapperVars, cancelVars, rollbackVars,
                   progressVars, inputVars, tables_to_migrate, tables_to_include, step, pending,
                   migrated_rows, error, rollback_names, targetVars, jobVars,
                   histVars, faults>>

\* except Exception as rollback_error: logged, the result keeps str(e).
\* PostgreSQL rolls the transaction of the rollback back.
RollbackFails ==
    /\ jpc = "engine"
    /\ pc = "rollback"
    /\ faults > 0
    /\ faults' = faults - 1
    /\ IF target_db_type = "postgresql"
       THEN /\ target_tables' = txn_save.tables
            /\ target_rows' = txn_save.rows
            /\ rollback_dropped' = <<>>
       ELSE UNCHANGED <<target_tables, target_rows, rollback_dropped>>
    /\ migration_log' = Append(migration_log, LogEntry("Rollback failed", "rollback error"))
    /\ result' = FailureResult(error, "rollback error")
    /\ pc' = "done"
    /\ open_conns' = CloseOnExit(open_conns, TRUE)
    /\ UNCHANGED <<fkVars, createVars, previewVars, mapperVars, cancelVars, rollbackVars,
                   progressVars, inputVars, tables_to_migrate, tables_to_include, step, pending,
                   migrated_rows, error, rollback_names, txn_save, created,
                   target_ops, jobVars, histVars>>

(***************************************************************************)
(* Specification of a migration job                                        *)
(***************************************************************************)

\* the source schemas of the runs: the tables of the scenario, orders ->
\* customers, with or without items -> orders
EngineFkChoices ==
    {f \in FkChoices :
        /\ f["customers"] = {}
        /\ f["orders"] = {"customers"}
        /\ f["items"] \subseteq {"orders"}}

EngineSelections == {{"orders"}, {"customers", "orders"}, TableNames}

\* every target type on the native path and on the cross path
EnginePairs ==
    {<<t, t>> : t \in DbTypes} \cup
    {<<"mysql", "postgresql">>, <<"mongodb", "mysql">>,
     <<"postgresql", "mongodb">>, <<"mysql", "sqlite">>}

TargetChoices == {{}, {"customers"}, {"customers", "orders"}}

Init ==
    /\ \E pair \in EnginePairs :
          /\ source_db_type = pair[1]
          /\ target_db_type = pair[2]
    /\ schema_tables \in {MkSchema(f) : f \in EngineFkChoices}
    /\ selected_tables \in EngineSelections
    /\ drop_if_exists \in BOOLEAN
    /\ is_dry_run \in BOOLEAN
    /\ target_before \in TargetChoices
    /\ target_tables = target_before
    /\ target_rows = [n \in RefNames |-> IF n \in target_before THEN 1 ELSE 0]
    /\ faults = MaxFaults
    /\ status = "PENDING"
    /\ jpc = "pending"
    /\ pc = "idle"
    /\ RunNotStarted
    /\ CreateAtRest
    /\ PreviewAtRest
    /\ MapperAtRest
    /\ CancelAtRest
    /\ RollbackAtRest

Next ==
    \/ JobStart
    \/ JobCancelCheck
    \/ JobSnapshot
    \/ JobFinish
    \/ CancelMigration
    \/ MigrateStart
    \/ UpdateProgressCancelled
    \/ UpdateProgressOk
    \/ UpdateProgressFails
    \/ GetSchemaOk
    \/ GetSchemaFails
    \/ EngineResolve
    \/ NativeFilter
    \/ SchemaBegin
    \/ SchemaDropStep
    \/ SchemaSkipExisting
    \/ SchemaCreateTable
    \/ SchemaRelationships
    \/ SchemaFksBegin
    \/ SchemaAddForeignKey
    \/ SchemaFksEnd
    \/ SchemaStatementFails
    \/ FetchSourceData
    \/ InsertBatch
    \/ DataTransferFails
    \/ LogCompleted
    \/ ReturnSuccess
    \/ HandleFailure
    \/ RollbackStep
    \/ RollbackCompletes
    \/ RollbackFails

Spec == Init /\ [][Next]_vars

(***************************************************************************)
(* SchemaInspector.get_schema and preview_migration                        *)
(***************************************************************************)

\* the state of the engine and of the job while no job runs
EngineAtRest ==
    /\ drop_if_exists = FALSE
    /\ is_dry_run = FALSE
    /\ target_tables = target_before
    /\ target_rows = [n \in RefNames |-> IF n \in target_before THEN 1 ELSE 0]
    /\ faults = 0
    /\ status = "PENDING"
    /\ jpc = "none"
    /\ RunNotStarted

\* the order in which get_schema lists the tables of the target
TargetOrder == <<"archive", "customers", "items", "orders", "sqlite_sequence">>

\* the tables of a database as its inspection finds them
TablesOf(names) ==
    [i \in DOMAIN SetToSeq(names, TargetOrder) |->
        [name |-> SetToSeq(names, TargetOrder)[i], foreign_keys |-> {}]]

RECURSIVE inspect_tables(_, _, _, _)
\* _inspect_<engine>: for each table its description, then its row count; the
\* count query is not guarded, its exception leaves the loop
inspect_tables(db_tables, rows, fault, tables) ==
    IF db_tables = <<>> THEN [raised |-> FALSE, tables |-> tables]
    ELSE LET t == Head(db_tables)
         IN  IF fault.kind = "count" /\ fault.table = t.name
             THEN [raised |-> TRUE, tables |-> tables]
             ELSE inspect_tables(Tail(db_tables), rows, fault,
                      Append(tables, [name |-> t.name,
                                      foreign_keys |-> t.foreign_keys,
                                      row_count |-> rows[t.name]]))

\* get_schema: any exception of the inspection becomes success = False, and
\* the failure dictionary has no "tables"
get_schema(db_tables, rows, fault) ==
    IF fault.kind = "connect" THEN NoSchema
    ELSE LET r == inspect_tables(db_tables, rows, fault, <<>>)
         IN  IF r.raised THEN NoSchema
             ELSE [success |-> TRUE, tables |-> r.tables]

FaultAt(side) == IF inspect_fault.side = side THEN inspect_fault ELSE NoFault

RowCountOf(schema, table_name) ==
    LET i == CHOOSE i \in DOMAIN schema.tables : schema.tables[i].name = table_name
    IN  schema.tables[i].row_count

RECURSIVE preview_loop(_, _, _, _)
\* for table_name in migration_data.selected_tables: ...
preview_loop(selected, source, target, acc) ==
    IF selected = <<>> THEN acc
    ELSE LET table_name == Head(selected)
             in_source  == table_name \in Range(Names(source.tables))
             in_target  == table_name \in Range(Names(target.tables))
             next == IF ~in_source THEN acc
                     ELSE [acc EXCEPT
                            !.tables_to_create = Append(@, table_name),
                            !.total_rows = @ + RowCountOf(source, table_name),
                            !.tables_to_drop =
                                IF in_target THEN Append(@, table_name) ELSE @,
                            !.warnings =
                                IF in_target THEN Append(@, table_name) ELSE @]
         IN  preview_loop(Tail(selected), source, target, next)

TargetRowsBefore == [n \in RefNames |-> 1]

PreviewMigration ==
    /\ pc = "preview"
    /\ jpc = "none"
    /\ \E order \in IterOrders :
          LET source == get_schema(schema_tables, SourceRows, FaultAt("source"))
              target == get_schema(TablesOf(target_before), TargetRowsBefore,
                                   FaultAt("target"))
          IN  /\ source_schema' = source
              /\ target_schema' = target
              /\ preview' = [preview_loop(SetToSeq(selected_tables, order),
                                          source, target, NoPreview)
                               EXCEPT !.existing_tables = Range(Names(target.tables))]
    /\ pc' = "previewed"
    /\ UNCHANGED <<inputVars, tables_to_migrate, tables_to_include, migration_log,
                   step, pending, migrated_rows, error, result, rollback_names,
                   targetVars, jobVars, histVars, progressVars, open_conns, faults,
                   fkVars, createVars, inspect_fault, mapperVars, cancelVars, rollbackVars>>

PreviewNames == {"customers", "orders", "archive"}

InspectFaults ==
    {NoFault} \cup
    {[side |-> s, kind |-> "connect", table |-> ""] : s \in {"source", "target"}} \cup
    {[side |-> s, kind |-> "count", table |-> t] :
        s \in {"source", "target"}, t \in {"customers", "orders"}}

InitPreview ==
    /\ source_db_type \in {"postgresql", "sqlite"}
    /\ target_db_type \in {"mysql", "sqlite"}
    /\ schema_tables \in {MkSchema(f) : f \in EngineFkChoices}
    /\ selected_tables \in (SUBSET PreviewNames) \ {{}}
    /\ target_before \in SUBSET PreviewNames
    /\ inspect_fault \in InspectFaults
    /\ source_schema = NoSchema
    /\ target_schema = NoSchema
    /\ preview = NoPreview
    /\ pc = "preview"
    /\ EngineAtRest
    /\ CreateAtRest
    /\ MapperAtRest
    /\ CancelAtRest
    /\ RollbackAtRest

NextPreview == PreviewMigration

SpecPreview == InitPreview /\ [][NextPreview]_vars

(***************************************************************************)
(* create_migration and clone_database                                     *)
(***************************************************************************)

\* ids of the DatabaseConnection records that exist
ConnIds == {1, 2}

\* an id no record has
UnknownId == 7

ConnTypes == {"mysql", "postgresql"}
ConnHosts == {"db1", "db2"}
ConnDatabases == {"shop", "crm"}

ConnRecords == [db_type : ConnTypes, host : ConnHosts, database_name : ConnDatabases]

\* the physical database a connection record resolves to
Triple(conn) == <<conn.db_type, conn.host, conn.database_name>>

MigrationRecord(id, source_id, target_id) ==
    [id |-> id, source_connection_id |-> source_id, target_connection_id |-> target_id,
     status |-> "PENDING"]

\* create_migration: 404 for an unknown connection, 400 when source and target
\* are the same record; otherwise the job is stored and its task is queued
CreateMigration ==
    /\ pc = "create"
    /\ jpc = "none"
    /\ request.kind = "create"
    /\ LET source_id == request.source_connection_id
           target_id == request.target_connection_id
       IN  IF source_id \notin DOMAIN connections
           THEN response' = "404 Source connection not found" /\ UNCHANGED migrations
           ELSE IF target_id \notin DOMAIN connections
           THEN response' = "404 Target connection not found" /\ UNCHANGED migrations
           ELSE IF source_id = target_id
           THEN response' = "400 Source and target cannot be the same" /\ UNCHANGED migrations
           ELSE /\ migrations' = migrations \cup
                      {MigrationRecord(Cardinality(migrations) + 1, source_id, target_id)}
                /\ response' = "created"
    /\ pc' = "created"
    /\ UNCHANGED <<inputVars, tables_to_migrate, tables_to_include, migration_log,
                   step, pending, migrated_rows, error, result, rollback_names,
                   targetVars, jobVars, histVars, progressVars, open_conns, faults,
                   fkVars, connections, request, previewVars, mapperVars, cancelVars, rollbackVars>>

\* clone_database: a new connection record for the clone, then a job from the
\* source to it, with drop_if_exists = True
CloneDatabase ==
    /\ pc = "create"
    /\ jpc = "none"
    /\ request.kind = "clone"
    /\ LET source_id == request.source_connection_id
           new_id    == Cardinality(DOMAIN connections) + 1
       IN  IF source_id \notin DOMAIN connections
           THEN /\ response' = "404 Source connection not found"
                /\ UNCHANGED <<migrations, connections>>
           ELSE /\ connections' = connections @@
                      (new_id :> [db_type |-> request.target_db_type,
                                  host |-> IF request.target_host # ""
                                           THEN request.target_host
                                           ELSE connections[source_id].host,
                                  database_name |-> request.new_database_name])
                /\ migrations' = migrations \cup
                      {MigrationRecord(Cardinality(migrations) + 1, source_id, new_id)}
                /\ response' = "Database clone started"
    /\ pc' = "created"
    /\ UNCHANGED <<inputVars, tables_to_migrate, tables_to_include, migration_log,
                   step, pending, migrated_rows, error, result, rollback_names,
                   targetVars, jobVars, histVars, progressVars, open_conns, faults,
                   fkVars, request, previewVars, mapperVars, cancelVars, rollbackVars>>

CreateRequests ==
    [kind : {"create"},
     source_connection_id : ConnIds \cup {UnknownId},
     target_connection_id : ConnIds \cup {UnknownId},
     new_database_name : {""}, target_db_type : {""}, target_host : {""}]

CloneRequests ==
    [kind : {"clone"},
     source_connection_id : ConnIds \cup {UnknownId},
     target_connection_id : {0},
     new_database_name : ConnDatabases, target_db_type : ConnTypes,
     target_host : ConnHosts \cup {""}]

InitCreate ==
    /\ connections \in [ConnIds -> ConnRecords]
    /\ request \in CreateRequests \cup CloneRequests
    /\ migrations = {}
    /\ response = ""
    /\ source_db_type = "mysql"
    /\ target_db_type = "postgresql"
    /\ schema_tables = <<>>
    /\ selected_tables = {}
    /\ target_before = {}
    /\ pc = "create"
    /\ EngineAtRest
    /\ PreviewAtRest
    /\ MapperAtRest
    /\ CancelAtRest
    /\ RollbackAtRest

NextCreate == CreateMigration \/ CloneDatabase

SpecCreate == InitCreate /\ [][NextCreate]_vars

(***************************************************************************)
(* DataTypeMapper: the type of one column in the generated CREATE TABLE.   *)
(* A type string is a sequence of tokens, "varchar(50)" is                 *)
(* <<"varchar", "(", "50", ")">>; no operation of the mapper cuts a token. *)
(***************************************************************************)

\* str.lower() of one token
LowerWord(w) ==
    CASE w = "TINYINT"  -> "tinyint"
      [] w = "VARCHAR"  -> "varchar"
      [] w = "INTEGER"  -> "integer"
      [] w = "REAL"     -> "real"
      [] w = "DATETIME" -> "datetime"
      [] w = "USER-DEFINED" -> "user-defined"
      [] w = "TEXT"     -> "text"
      [] w = " UNSIGNED" -> " unsigned"
      [] OTHER -> w

lower(s) == [i \in DOMAIN s |-> LowerWord(s[i])]

\* s.replace(old, '')
replace(s, old) == SelectSeq(s, LAMBDA w : w # old)

RECURSIVE lstrip(_)
lstrip(s) == IF s # <<>> /\ Head(s) = " " THEN lstrip(Tail(s)) ELSE s

RECURSIVE rstrip(_)
rstrip(s) ==
    IF s # <<>> /\ s[Len(s)] = " " THEN rstrip(SubSeq(s, 1, Len(s) - 1)) ELSE s

strip(s) == lstrip(rstrip(s))

\* sub in s
Contains(s, sub) == \E i \in DOMAIN s : s[i] = sub

\* s.index(sub), 1-based
index(s, sub) == CHOOSE i \in DOMAIN s : s[i] = sub /\ \A j \in 1..(i - 1) : s[j] # sub

\* s.split('(')[0]
split_paren_0(s) == IF Contains(s, "(") THEN SubSeq(s, 1, index(s, "(") - 1) ELSE s

\* a dictionary is a set of <<key, value>> pairs; dict.get(key, default)
Get(dict, key, default) ==
    IF \E p \in dict : p[1] = key
    THEN (CHOOSE p \in dict : p[1] = key)[2]
    ELSE default

\* the entries whose key and value are one token each
Words(pairs) == {<<(<<p[1]>>), (<<p[2]>>)>> : p \in pairs}

TINYINT_1 == <<"tinyint", "(", "1", ")">>
VARCHAR_255 == <<"varchar", "(", "255", ")">>

MYSQL_TO_POSTGRESQL ==
    Words({<<"tinyint", "smallint">>, <<"smallint", "smallint">>,
           <<"mediumint", "integer">>, <<"int", "integer">>,
           <<"integer", "integer">>, <<"bigint", "bigint">>, <<"float", "real">>,
           <<"double", "double precision">>, <<"decimal", "decimal">>,
           <<"numeric", "numeric">>, <<"char", "char">>, <<"varchar", "varchar">>,
           <<"tinytext", "text">>, <<"text", "text">>, <<"mediumtext", "text">>,
           <<"longtext", "text">>, <<"binary", "bytea">>, <<"varbinary", "bytea">>,
           <<"tinyblob", "bytea">>, <<"blob", "bytea">>, <<"mediumblob", "bytea">>,
           <<"longblob", "bytea">>, <<"date", "date">>, <<"datetime", "timestamp">>,
           <<"timestamp", "timestamp">>, <<"time", "time">>, <<"year", "smallint">>,
           <<"enum", "varchar">>, <<"set", "text">>, <<"json", "json">>,
           <<"boolean", "boolean">>})
    \cup {<<TINYINT_1, (<<"boolean">>)>>}

POSTGRESQL_TO_MYSQL ==
    Words({<<"smallint", "smallint">>, <<"integer", "int">>, <<"bigint", "bigint">>,
           <<"serial", "int auto_increment">>,
           <<"bigserial", "bigint auto_increment">>, <<"real", "float">>,
           <<"double precision", "double">>, <<"decimal", "decimal">>,
           <<"numeric", "decimal">>, <<"char", "char">>, <<"varchar", "varchar">>,
           <<"text", "text">>, <<"character varying", "varchar">>,
           <<"bytea", "blob">>, <<"date", "date">>, <<"timestamp", "datetime">>,
           <<"timestamp without time zone", "datetime">>,
           <<"timestamp with time zone", "datetime">>, <<"time", "time">>,
           <<"time without time zone", "time">>, <<"time with time zone", "time">>,
           <<"json", "json">>, <<"jsonb", "json">>})
    \cup {<<(<<"boolean">>), TINYINT_1>>,
          <<(<<"uuid">>), (<<"char", "(", "36", ")">>)>>}

SQLITE_TYPE_MAP ==
    Words({<<"integer", "INTEGER">>, <<"bigint", "INTEGER">>,
           <<"smallint", "INTEGER">>, <<"tinyint", "INTEGER">>, <<"int", "INTEGER">>,
           <<"serial", "INTEGER">>, <<"bigserial", "INTEGER">>,
           <<"varchar", "TEXT">>, <<"char", "TEXT">>, <<"text", "TEXT">>,
           <<"mediumtext", "TEXT">>, <<"longtext", "TEXT">>,
           <<"character varying", "TEXT">>, <<"decimal", "REAL">>,
           <<"numeric", "REAL">>, <<"float", "REAL">>, <<"double", "REAL">>,
           <<"real", "REAL">>, <<"double precision", "REAL">>,
           <<"boolean", "INTEGER">>, <<"bool", "INTEGER">>, <<"date", "TEXT">>,
           <<"datetime", "TEXT">>, <<"timestamp", "TEXT">>, <<"time", "TEXT">>,
           <<"blob", "BLOB">>, <<"bytea", "BLOB">>, <<"binary", "BLOB">>})
    \cup {<<TINYINT_1, (<<"INTEGER">>)>>}

sqlite_to_pg ==
    Words({<<"integer", "integer">>, <<"text", "text">>,
           <<"real", "double precision">>, <<"blob", "bytea">>})

mongo_to_pg ==
    Words({<<"string", "text">>, <<"str", "text">>, <<"integer", "integer">>,
           <<"int", "integer">>, <<"double", "double precision">>,
           <<"float", "double precision">>, <<"boolean", "boolean">>,
           <<"bool", "boolean">>, <<"date", "timestamp">>,
           <<"datetime", "timestamp">>, <<"object", "jsonb">>, <<"dict", "jsonb">>,
           <<"array", "jsonb">>, <<"list", "jsonb">>})
    \cup {<<(<<"objectid">>), (<<"varchar", "(", "24", ")">>)>>}

sqlite_to_mysql(is_primary_key) ==
    Words({<<"integer", "INT">>, <<"real", "DOUBLE">>, <<"blob", "BLOB">>})
    \cup {<<(<<"text">>), IF is_primary_key THEN <<"VARCHAR", "(", "255", ")">>
                          ELSE <<"TEXT">>>>}

mongo_to_mysql ==
    Words({<<"string", "TEXT">>, <<"str", "TEXT">>, <<"integer", "INT">>,
           <<"int", "INT">>, <<"double", "DOUBLE">>, <<"float", "DOUBLE">>,
           <<"date", "DATETIME">>, <<"datetime", "DATETIME">>,
           <<"object", "JSON">>, <<"dict", "JSON">>, <<"array", "JSON">>,
           <<"list", "JSON">>})
    \cup {<<(<<"boolean">>), (<<"TINYINT", "(", "1", ")">>)>>,
          <<(<<"bool">>), (<<"TINYINT", "(", "1", ")">>)>>,
          <<(<<"objectid">>), (<<"VARCHAR", "(", "24", ")">>)>>}

\* the column's type string: the inspectors store it under "type"
get_column_data_type(col) == col.type

map_to_sqlite(source_type, source_db) ==
    Get(SQLITE_TYPE_MAP, split_paren_0(lower(source_type)), <<"TEXT">>)

\* source_type[source_type.index('('):source_type.index(')')+1]
ParenPart(s) == SubSeq(s, index(s, "("), index(s, ")"))

\* the loop body of get_create_table_sql_postgresql: col_type of one column
column_type_postgresql(col, source_db) ==
    LET source_type == get_column_data_type(col)
    IN  CASE source_db = "mysql" ->
               LET cleaned_type ==
                       strip(replace(replace(lower(source_type), " unsigned"),
                                     " zerofill"))
                   base_type == split_paren_0(cleaned_type)
                   mapped == Get(MYSQL_TO_POSTGRESQL, base_type, source_type)
               IN  IF /\ Contains(source_type, "(")
                      /\ mapped \in {<<"char">>, <<"varchar">>, <<"decimal">>,
                                     <<"numeric">>}
                   THEN IF base_type \in {<<"enum">>, <<"set">>}
                        THEN IF mapped = <<"varchar">> THEN VARCHAR_255 ELSE mapped
                        ELSE mapped \o ParenPart(source_type)
                   ELSE mapped
          [] source_db = "sqlite" ->
               Get(sqlite_to_pg, lower(source_type), <<"text">>)
          [] source_db = "mongodb" ->
               IF col.name = "_id" THEN VARCHAR_255
               ELSE Get(mongo_to_pg, lower(source_type), <<"text">>)
          [] OTHER -> source_type

\* the loop body of get_create_table_sql_mysql
column_type_mysql(col, source_db) ==
    LET source_type == get_column_data_type(col)
        is_primary_key == col.is_primary_key
    IN  CASE source_db = "postgresql" ->
               LET base_type == split_paren_0(lower(source_type))
                   mapped == Get(POSTGRESQL_TO_MYSQL, base_type, source_type)
               IN  IF mapped = <<"varchar">> /\ ~Contains(mapped, "(")
                   THEN VARCHAR_255
                   ELSE IF mapped = <<"char">> /\ ~Contains(mapped, "(")
                   THEN <<"char", "(", "255", ")">>
                   ELSE mapped
          [] source_db = "sqlite" ->
               Get(sqlite_to_mysql(is_primary_key), lower(source_type),
                   IF is_primary_key THEN <<"VARCHAR", "(", "255", ")">>
                   ELSE <<"TEXT">>)
          [] source_db = "mongodb" ->
               IF col.name = "_id" THEN <<"VARCHAR", "(", "255", ")">>
               ELSE Get(mongo_to_mysql, lower(source_type), <<"TEXT">>)
          [] OTHER -> source_type

\* the loop body of get_create_table_sql_sqlite
column_type_sqlite(col, source_db) ==
    IF source_db = "mongodb" /\ col.name = "_id" THEN <<"TEXT">>
    ELSE map_to_sqlite(get_column_data_type(col), source_db)

\* get_create_table_sql: the dispatch on target_db; no DDL for MongoDB
get_create_table_sql(col, source_db, target_db) ==
    CASE target_db = "postgresql" -> column_type_postgresql(col, source_db)
      [] target_db = "mysql"      -> column_type_mysql(col, source_db)
      [] target_db = "sqlite"     -> column_type_sqlite(col, source_db)
      [] target_db = "mongodb"    -> <<>>

\* one column of the CREATE TABLE statement of the target
\* col.get(key, default) of a column dictionary
col_get(col, key, default) ==
    IF key \in DOMAIN col THEN col[key] ELSE default

\* `if not col.get("is_nullable", True): col_def += " NOT NULL"`, the same
\* test in the three generators and in _migrate_schema_sqlite
declares_not_null(col) == ~col_get(col, "is_nullable", TRUE)

MapColumn ==
    /\ pc = "map"
    /\ jpc = "none"
    /\ col_type' = get_create_table_sql(column, source_db_type, target_db_type)
    /\ not_null' = declares_not_null(column)
    /\ pc' = "mapped"
    /\ UNCHANGED <<inputVars, tables_to_migrate, tables_to_include, migration_log,
                   step, pending, migrated_rows, error, result, rollback_names,
                   targetVars, jobVars, histVars, progressVars, open_conns, faults,
                   fkVars, createVars, previewVars, column, cancelVars,
                   rollbackVars>>

\* the type strings the inspectors report: DESCRIBE of MySQL,
\* information_schema.columns.data_type of PostgreSQL, PRAGMA table_info of
\* SQLite, the sampled value types of MongoDB
MapperTypes(source_db) ==
    CASE source_db = "mysql" ->
           {TINYINT_1, <<"tinyint">>, <<"int", "(", "11", ")", " unsigned">>,
            <<"bigint">>, <<"varchar", "(", "50", ")">>, <<"char", "(", "10", ")">>,
            <<"decimal", "(", "10,2", ")">>,
            <<"decimal", "(", "10,2", ")", " unsigned">>,
            <<"enum", "(", "'a','b'", ")">>, <<"set", "(", "'a','b'", ")">>,
            <<"text">>, <<"datetime">>, <<"geometry">>}
      [] source_db = "postgresql" ->
           {<<"boolean">>, <<"integer">>, <<"character varying">>,
            <<"character">>, <<"numeric">>, <<"text">>,
            <<"timestamp without time zone">>, <<"uuid">>, <<"USER-DEFINED">>}
      [] source_db = "sqlite" ->
           {<<"INTEGER">>, <<"TEXT">>, <<"REAL">>, <<"VARCHAR", "(", "50", ")">>,
            <<"DATETIME">>}
      [] source_db = "mongodb" ->
           {<<"string">>, <<"integer">>, <<"double">>, <<"boolean">>,
            <<"datetime">>, <<"object">>, <<"array">>}

\* _inspect_postgresql reports character_maximum_length beside the type
MapperColumns(source_db) ==
    {c \in [name : {"id", "_id"}, type : MapperTypes(source_db),
            length : {"", "50"}, is_primary_key : BOOLEAN,
            nullable : BOOLEAN] :
        c.length = "50" <=>
            source_db = "postgresql" /\
            c.type \in {<<"character varying">>, <<"character">>}}

InitMapper ==
    /\ source_db_type \in DbTypes
    /\ target_db_type \in DbTypes
    /\ column \in MapperColumns(source_db_type)
    /\ col_type = <<>>
    /\ not_null = FALSE
    /\ schema_tables = <<>>
    /\ selected_tables = {}
    /\ target_before = {}
    /\ pc = "map"
    /\ EngineAtRest
    /\ PreviewAtRest
    /\ CreateAtRest
    /\ CancelAtRest
    /\ RollbackAtRest

NextMapper == MapColumn

SpecMapper == InitMapper /\ [][NextMapper]_vars

(***************************************************************************)
(* Two run_migration_job tasks and the shared CANCEL_REQUESTS dictionary   *)
(***************************************************************************)

\* the ids of the two Migration rows
JobIds == {1, 2}

\* the steps a MigrationEngine reports through progress_callback for one table
Checkpoints ==
    <<"Fetching source schema", "Analyzing dependencies", "Migrating schema",
      "Migrating data", "Migration completed">>

\* CANCEL_REQUESTS[migration_id] = True
dict_set(d, key) ==
    [k \in DOMAIN d \cup {key} |-> IF k = key THEN TRUE ELSE d[k]]

\* del CANCEL_REQUESTS[migration_id]
dict_del(d, key) == [k \in DOMAIN d \ {key} |-> d[k]]

\* mutant: any pending cancel request stops the job
cancel_requested_any(d, migration_id) == \E k \in DOMAIN d : d[k]

\* CANCEL_REQUESTS.get(migration_id)
cancel_requested(d, migration_id) == migration_id \in DOMAIN d /\ d[migration_id]

\* some other migration has a pending cancel request
ForeignCancel(migration_id) ==
    \E k \in DOMAIN CANCEL_REQUESTS : k # migration_id /\ CANCEL_REQUESTS[k]

OtherVarsAtRest ==
    UNCHANGED <<inputVars, engineVars, targetVars, jobVars, histVars, progressVars,
                open_conns, faults, fkVars, createVars, previewVars, mapperVars,
                rollbackVars>>

\* migration.status = IN_PROGRESS and the first commit
ConcurrentJobStart(migration_id) ==
    /\ jobs[migration_id].pc = "pending"
    /\ jobs' = [jobs EXCEPT ![migration_id].pc = "cancel_check",
                            ![migration_id].status = "IN_PROGRESS"]
    /\ UNCHANGED CANCEL_REQUESTS
    /\ OtherVarsAtRest

\* the check before the snapshot; a new MigrationEngine is built for the job
ConcurrentJobCancelCheck(migration_id) ==
    /\ jobs[migration_id].pc = "cancel_check"
    /\ IF cancel_requested(CANCEL_REQUESTS, migration_id)
       THEN /\ CANCEL_REQUESTS' = dict_del(CANCEL_REQUESTS, migration_id)
            /\ jobs' = [jobs EXCEPT ![migration_id].pc = "returned",
                                    ![migration_id].status = "CANCELLED",
                                    ![migration_id].current_step = "Cancelled by user"]
       ELSE /\ UNCHANGED CANCEL_REQUESTS
            /\ jobs' = [jobs EXCEPT ![migration_id].pc = "engine",
                                    ![migration_id].saw_foreign =
                                        @ \/ ForeignCancel(migration_id)]
    /\ OtherVarsAtRest

\* update_progress, called by the job's own engine
ConcurrentUpdateProgress(migration_id) ==
    /\ jobs[migration_id].pc = "engine"
    /\ jobs[migration_id].step < Len(Checkpoints)
    /\ IF cancel_requested(CANCEL_REQUESTS, migration_id)
       THEN /\ CANCEL_REQUESTS' = dict_del(CANCEL_REQUESTS, migration_id)
            /\ jobs' = [jobs EXCEPT ![migration_id].pc = "raised",
                                    ![migration_id].error = CancelText]
       ELSE /\ UNCHANGED CANCEL_REQUESTS
            /\ jobs' = [jobs EXCEPT ![migration_id].step = @ + 1,
                                    ![migration_id].current_step =
                                        Checkpoints[jobs[migration_id].step + 1],
                                    ![migration_id].saw_foreign =
                                        @ \/ ForeignCancel(migration_id)]
    /\ OtherVarsAtRest

\* result["success"]: status COMPLETED
ConcurrentJobCompleted(migration_id) ==
    /\ jobs[migration_id].pc = "engine"
    /\ jobs[migration_id].step = Len(Checkpoints)
    /\ jobs' = [jobs EXCEPT ![migration_id].pc = "returned",
                            ![migration_id].status = "COMPLETED"]
    /\ UNCHANGED CANCEL_REQUESTS
    /\ OtherVarsAtRest

\* the engine returns success False with the callback's exception text
ConcurrentJobFailed(migration_id) ==
    /\ jobs[migration_id].pc = "raised"
    /\ jobs' = [jobs EXCEPT ![migration_id].pc = "returned",
                            ![migration_id].status = "FAILED",
                            ![migration_id].error_message = jobs[migration_id].error]
    /\ UNCHANGED CANCEL_REQUESTS
    /\ OtherVarsAtRest

\* cancel_migration; any other status is answered 400 and changes nothing
ConcurrentCancelMigration(migration_id) ==
    /\ jobs[migration_id].status = "IN_PROGRESS"
    /\ CANCEL_REQUESTS' = dict_set(CANCEL_REQUESTS, migration_id)
    /\ jobs' = [jobs EXCEPT ![migration_id].status = "CANCELLED",
                            ![migration_id].current_step = "Cancellation requested...",
                            ![migration_id].cancel_accepted = TRUE]
    /\ OtherVarsAtRest

InitCancel ==
    /\ source_db_type = "mysql"
    /\ target_db_type = "postgresql"
    /\ schema_tables = <<>>
    /\ selected_tables = {}
    /\ target_before = {}
    /\ pc = "idle"
    /\ EngineAtRest
    /\ PreviewAtRest
    /\ CreateAtRest
    /\ MapperAtRest
    /\ RollbackAtRest
    /\ CANCEL_REQUESTS = <<>>
    /\ jobs = [migration_id \in JobIds |->
                 [pc |-> "pending", status |-> "PENDING", step |-> 0,
                  current_step |-> "", error |-> "", error_message |-> "",
                  cancel_accepted |-> FALSE, saw_foreign |-> FALSE]]

NextCancel ==
    \E migration_id \in JobIds :
        \/ ConcurrentJobStart(migration_id)
        \/ ConcurrentJobCancelCheck(migration_id)
        \/ ConcurrentUpdateProgress(migration_id)
        \/ ConcurrentJobCompleted(migration_id)
        \/ ConcurrentJobFailed(migration_id)
        \/ ConcurrentCancelMigration(migration_id)

SpecCancel == InitCancel /\ [][NextCancel]_vars

(***************************************************************************)
(* rollback_migration and run_rollback_job                                 *)
(***************************************************************************)

\* two calls of POST /{migration_id}/rollback for the same migration
RequestIds == {1, 2}

RollbackOthersUnchanged ==
    UNCHANGED <<inputVars, engineVars, targetVars, jobVars, histVars, progressVars,
                open_conns, faults, fkVars, createVars, previewVars, mapperVars,
                cancelVars>>

\* the tests of rollback_migration on the row its own session loaded
MayRollback(row) ==
    /\ row.status \in {"COMPLETED", "FAILED"}
    /\ row.can_rollback
    /\ row.snapshot = "COMPLETED"

\* run_rollback_job tasks that were added and have not finished
InFlight == {j \in DOMAIN rollback_jobs : rollback_jobs[j].pc # "finished"}

\* select(Migration): the request's session loads the row
RollbackLoad(r) ==
    /\ rollback_requests[r].pc = "called"
    /\ rollback_requests' = [rollback_requests EXCEPT ![r].pc = "loaded",
                                                      ![r].row = migration]
    /\ UNCHANGED <<migration, rollback_jobs>>
    /\ RollbackOthersUnchanged

\* one of the three tests fails: HTTP 400
RollbackRejected(r) ==
    /\ rollback_requests[r].pc = "loaded"
    /\ ~MayRollback(rollback_requests[r].row)
    /\ rollback_requests' = [rollback_requests EXCEPT ![r].pc = "responded",
                                                      ![r].response = 400]
    /\ UNCHANGED <<migration, rollback_jobs>>
    /\ RollbackOthersUnchanged

\* the tests pass; the request awaits the snapshot and the connection queries
RollbackChecked(r) ==
    /\ rollback_requests[r].pc = "loaded"
    /\ MayRollback(rollback_requests[r].row)
    /\ rollback_requests' = [rollback_requests EXCEPT ![r].pc = "checked"]
    /\ UNCHANGED <<migration, rollback_jobs>>
    /\ RollbackOthersUnchanged

\* background_tasks.add_task(run_rollback_job), status IN_PROGRESS, commit
RollbackStart(r) ==
    /\ rollback_requests[r].pc = "checked"
    /\ rollback_jobs' = Append(rollback_jobs,
                               [request |-> r, pc |-> "queued",
                                others |-> Cardinality(InFlight)])
    /\ migration' = [migration EXCEPT !.status = "IN_PROGRESS",
                                      !.current_step = "Rollback in progress..."]
    /\ rollback_requests' = [rollback_requests EXCEPT ![r].pc = "responded",
                                                      ![r].response = 200]
    /\ RollbackOthersUnchanged

\* run_rollback_job up to the call of restore_snapshot
RunRollbackJobBegin(j) ==
    /\ rollback_jobs[j].pc = "queued"
    /\ rollback_jobs' = [rollback_jobs EXCEPT ![j].pc = "restoring"]
    /\ migration' = [migration EXCEPT !.current_step = "Restoring from snapshot..."]
    /\ UNCHANGED rollback_requests
    /\ RollbackOthersUnchanged

\* restore_snapshot returned: ROLLED_BACK on success, FAILED otherwise
RunRollbackJobEnd(j) ==
    /\ rollback_jobs[j].pc = "restoring"
    /\ \E success \in BOOLEAN :
          migration' = [migration EXCEPT
                           !.status = IF success THEN "ROLLED_BACK" ELSE "FAILED",
                           !.current_step =
                               IF success THEN "Rollback completed successfully"
                               ELSE @]
    /\ rollback_jobs' = [rollback_jobs EXCEPT ![j].pc = "finished"]
    /\ UNCHANGED rollback_requests
    /\ RollbackOthersUnchanged

InitRollback ==
    /\ source_db_type = "mysql"
    /\ target_db_type = "postgresql"
    /\ schema_tables = <<>>
    /\ selected_tables = {}
    /\ target_before = {}
    /\ pc = "idle"
    /\ EngineAtRest
    /\ PreviewAtRest
    /\ CreateAtRest
    /\ MapperAtRest
    /\ CancelAtRest
    /\ migration \in [status : {"IN_PROGRESS", "COMPLETED", "FAILED", "CANCELLED"},
                      can_rollback : BOOLEAN,
                      snapshot : {"NONE", "FAILED", "COMPLETED"},
                      current_step : {""}]
    /\ rollback_requests =
          [r \in RequestIds |->
              [pc |-> "called", response |-> 0,
               row |-> [status |-> "PENDING", can_rollback |-> FALSE,
                        snapshot |-> "NONE", current_step |-> ""]]]
    /\ rollback_jobs = <<>>

NextRollback ==
    \/ \E r \in RequestIds :
          \/ RollbackLoad(r)
          \/ RollbackRejected(r)
          \/ RollbackChecked(r)
          \/ RollbackStart(r)
    \/ \E j \in DOMAIN rollback_jobs :
          \/ RunRollbackJobBegin(j)
          \/ RunRollbackJobEnd(j)

SpecRollback == InitRollback /\ [][NextRollback]_vars

(***************************************************************************)
(* Claims about _resolve_dependencies (checked under SpecResolve)          *)
(***************************************************************************)

Returned == Range(tables_to_migrate)

\* the descriptor of table n in the source schema
Descriptor(n) == CHOOSE d \in Range(schema_tables) : d.name = n

SchemaNames == Range(Names(schema_tables))

\* the tables the resolver considers: the schema without internal tables
ResolvableNames == Range(Names(filtered_tables(schema_tables, source_db_type)))

PositionOf(n) == CHOOSE i \in DOMAIN tables_to_migrate : tables_to_migrate[i] = n

\* A references B by a foreign key, both returned
RefersTo(a, b) == a \in Returned /\ b \in Returned /\ b \in Descriptor(a).foreign_keys

RECURSIVE ReachableIn(_, _, _)
ReachableIn(from, to, steps) ==
    IF steps = 0 THEN FALSE
    ELSE \/ RefersTo(from, to)
         \/ \E mid \in Returned : RefersTo(from, mid) /\ ReachableIn(mid, to, steps - 1)

\* the foreign-key graph restricted to the returned tables has no cycle
ReturnedAcyclic == \A n \in Returned : ~ReachableIn(n, n, Cardinality(Returned))

\* every foreign key of every returned table is closed over `known`
FksClosedOver(known) ==
    \A a \in Returned : \A r \in Descriptor(a).foreign_keys :
        r \in Returned \/ r \notin known

\* C4 (as stated): the returned names are a superset of the selection S, and
\* every foreign key of a returned table references a returned table or a
\* name that is not a table of the schema G.
C4_Original ==
    pc = "resolved" =>
        /\ selected_tables \subseteq Returned
        /\ FksClosedOver(SchemaNames)

\* C4 (amended): the returned names contain every selected name that is a
\* non-internal table of G, and for a relational source every foreign key of
\* a returned table references a returned table or a name that is not a
\* non-internal table of G.
C4_Closure ==
    pc = "resolved" =>
        /\ (selected_tables \cap ResolvableNames) \subseteq Returned
        /\ (source_db_type # "mongodb" => FksClosedOver(ResolvableNames))

\* C4 witness: a relational run in which the closure added a table through a
\* chain of two references and the selection named a table G does not have.
C4_Witness ==
    /\ pc = "resolved"
    /\ source_db_type # "mongodb"
    /\ selected_tables = {"orders", MissingName}
    /\ Returned = TableNames
    /\ Descriptor("orders").foreign_keys = {"customers"}
    /\ Descriptor("customers").foreign_keys = {"items", MissingName}

OrderRespectsFks ==
    \A a, b \in Returned : RefersTo(a, b) => PositionOf(b) <= PositionOf(a)

\* C5 (as stated): for every schema whose foreign-key graph restricted to
\* the returned tables has no cycle, a referenced table is returned at or
\* before every table that references it.
C5_Original ==
    (pc = "resolved" /\ ReturnedAcyclic) => OrderRespectsFks

\* C5 (amended): the same, for a relational (non-document) source.
C5_TopologicalOrder ==
    (pc = "resolved" /\ source_db_type # "mongodb" /\ ReturnedAcyclic) => OrderRespectsFks

\* C5 witness: a relational run over an acyclic chain items -> orders ->
\* customers, ordered customers, orders, items.
C5_Witness ==
    /\ pc = "resolved"
    /\ source_db_type # "mongodb"
    /\ ReturnedAcyclic
    /\ RefersTo("items", "orders")
    /\ RefersTo("orders", "customers")
    /\ tables_to_migrate = <<"customers", "orders", "items">>

CountIn(seq, x) == Cardinality({i \in DOMAIN seq : seq[i] = x})

AutoSelectedCount(n) ==
    CountIn(migration_log, LogEntry("Auto-selected dependent table", n))

AutoSelectionsLoggedOnce ==
    \A n \in RefNames :
        AutoSelectedCount(n) =
            IF n \in tables_to_include \ selected_tables THEN 1 ELSE 0

OnlyOrdersSelected ==
    selected_tables = {"orders"} /\ "customers" \in Descriptor("orders").foreign_keys

CustomersBeforeOrders ==
    /\ {"orders", "customers"} \subseteq Returned
    /\ PositionOf("customers") < PositionOf("orders")

\* C7 (as stated): for a relational source, every table added to the
\* selection because of a reference is logged exactly once by an
\* auto-selection message naming it, no such message names a table of the
\* user's selection, and selecting only orders (which references customers)
\* returns both, customers first.
C7_Original ==
    (pc = "resolved" /\ source_db_type # "mongodb") =>
        /\ AutoSelectionsLoggedOnce
        /\ OnlyOrdersSelected => CustomersBeforeOrders

\* C7 (amended): the same, where customers comes before orders provided
\* customers does not reference orders in turn, directly or through other
\* tables.
C7_AutoSelectionLogged ==
    (pc = "resolved" /\ source_db_type # "mongodb") =>
        /\ AutoSelectionsLoggedOnce
        /\ OnlyOrdersSelected =>
              /\ {"orders", "customers"} \subseteq Returned
              /\ (~ReachableIn("customers", "orders", Cardinality(Returned))
                    => PositionOf("customers") < PositionOf("orders"))

\* C7 witness: only orders selected, customers auto-selected and logged.
C7_Witness ==
    /\ pc = "resolved"
    /\ source_db_type # "mongodb"
    /\ selected_tables = {"orders"}
    /\ Descriptor("orders").foreign_keys = {"customers"}
    /\ tables_to_migrate = <<"customers", "orders">>
    /\ migration_log = <<LogEntry("Auto-selected dependent table", "customers")>>

\* the user's list selected_names: the selected names, here in alphabetical
\* order
selected_names == SetToSeq(selected_tables, TargetOrder)

\* C23: for a document source the resolver returns exactly the selected
\* collections that exist and are not internal, in the order of the user's
\* list selected_names.
C23_DocumentOrder ==
    pc = "resolved" /\ source_db_type = "mongodb" =>
        tables_to_migrate =
            SelectSeq(selected_names, LAMBDA n : n \in ResolvableNames)

(***************************************************************************)
(* Claims about migrate(), its rollback and run_migration_job              *)
(***************************************************************************)

Reverse(s) == [i \in 1..Len(s) |-> s[Len(s) + 1 - i]]

LastLog == migration_log[Len(migration_log)]

\* migrate() has returned a failure result
ReturnedFailure == pc = "done" /\ error # ""

\* ... and its rollback ran to the end
RollbackRan == ReturnedFailure /\ LastLog = LogEntry("Rollback completed", "")

\* C1: when migrate() ends as failed or cancelled, the tables the rollback
\* dropped are exactly the tables this run had created, in the reverse of their
\* creation order (so a table that existed before the run and was not created
\* by it is not dropped).
C1_RollbackDropsCreated ==
    RollbackRan =>
        /\ rollback_dropped = Reverse(created)
        /\ \A t \in target_before \ Range(created) : t \notin Range(rollback_dropped)

\* C2: a cancel request accepted for an IN_PROGRESS job leaves the persisted
\* status CANCELLED once run_migration_job has finished.
C2_CancelledStatus ==
    jpc = "done" /\ at_cancel.accepted => status = "CANCELLED"

\* C3: when fetching the source schema fails, migrate() returns without having
\* executed a create, drop or insert on the target, whose tables are the
\* same as before the call.
C3_NoTargetMutation ==
    pc = "done" /\ error = SchemaFetchText =>
        /\ target_ops = {}
        /\ target_tables = target_before

RollbackOutcomeLogged ==
    \/ LastLog = LogEntry("Rollback completed", "")
    \/ LastLog = LogEntry("Rollback failed", "rollback error")

\* C8: every exception raised inside migrate(), in any phase and on both paths,
\* ends in a normal return with success = false, error equal to the text of the
\* original exception and a log entry with that text; the outcome of the
\* rollback, a failure included, is logged and leaves that error in the result.
C8_FailureReported ==
    /\ error # "" => pc \in {"failed", "rollback", "done"}
    /\ pc \in {"rollback", "done"} /\ error # "" =>
          Logged(LogEntry("Migration failed", error))
    /\ ReturnedFailure =>
          /\ result.success = FALSE
          /\ result.error = error
          /\ RollbackOutcomeLogged
    /\ pc = "done" /\ error = "" => result.success

C8_Witness ==
    /\ ReturnedFailure
    /\ Native
    /\ error = DataText
    /\ LastLog = LogEntry("Rollback failed", "rollback error")
    /\ result = [success |-> FALSE, error |-> DataText, total_tables |-> 0, total_rows |-> 0]

\* C9: on the native path the tables migrated are those the cross path would
\* migrate for the same schema and selection, in the same order.
C9_NativeSameAsCross ==
    Native /\ pc = "cp_schema" =>
        \E order \in IterOrders :
            tables_to_migrate =
                resolve_dependencies(schema_tables, selected_tables, source_db_type, order).tables

\* the run was aborted by the cancellation raised in the progress callback
CancelObserved == at_cancel.accepted /\ error = CancelText

\* C10: cancellation is observed only by the progress callback. Once the cancel
\* flag is set, no table whose data checkpoint was not yet passed is fetched;
\* a run aborted by the cancellation aborted in the first callback invoked after
\* the flag was set, every table it fetched was inserted completely, and the
\* table in transfer when the flag was set is among them.
C10_CancelAtCheckpoint ==
    /\ at_cancel.accepted => fetched \subseteq at_cancel.cp_tables
    /\ CancelObserved =>
          /\ cp_calls = at_cancel.cp_calls + 1
          /\ fetched \subseteq loaded
    /\ CancelObserved /\ at_cancel.in_transfer =>
          loaded = at_cancel.cp_tables

C10_Witness ==
    /\ CancelObserved
    /\ pc = "done"
    /\ at_cancel.in_transfer
    /\ at_cancel.cp_tables = {"customers"}
    /\ loaded = {"customers"}
    /\ target_rows["customers"] >= SourceRows["customers"]
    /\ "orders" \notin fetched

(***************************************************************************)
(* Claims about the progress percentage, the connections and the snapshot  *)
(***************************************************************************)

\* C11: the percentages persisted by the progress callback of one job are
\* strictly increasing and lie in 0..100; each is 10 + 0.9 * p for the reported
\* p; after a snapshot phase neither they nor the persisted percentage of the
\* job are below the 10 recorded at its end.
C11_ProgressMonotonic ==
    /\ \A i \in 1..Len(progress_log) :
          /\ progress_log[i].persisted \in 0..(100 * Percent)
          /\ 10 * progress_log[i].persisted = 100 * Percent + 9 * progress_log[i].reported
          /\ progress_log[i].persisted >= 10 * Percent
          /\ i > 1 => progress_log[i - 1].persisted < progress_log[i].persisted
    /\ progress_log # <<>> =>
          progress_percentage >= progress_log[Len(progress_log)].persisted
    /\ snapshot_status # "NONE" => progress_percentage >= 10 * Percent

C11_Witness ==
    /\ jpc = "done"
    /\ ~is_dry_run
    /\ ~Native
    /\ Len(tables_to_migrate) = 3
    /\ Len(progress_log) = 7
    /\ progress_log[5].reported * 3 = 170 * Percent
    /\ progress_log[7].persisted = 100 * Percent
    /\ progress_percentage = 100 * Percent

\* C12: when migrate() returns, on success, on failure and on cancellation,
\* no connection opened by the engine or the inspector is still open; at most
\* one is open at a time and none across a progress callback.
C12_ConnectionsClosed ==
    /\ open_conns \in {0, 1}
    /\ pc \in {"idle", "start", "done", "failed"} \cup CheckpointPcs => open_conns = 0

C12_Witness ==
    /\ pc = "done"
    /\ open_conns = 0
    /\ error = SchemaText
    /\ target_db_type = "mysql"
    /\ created # <<>>
    /\ LastLog = LogEntry("Rollback failed", "rollback error")

\* C13: for a job that is not a dry run, migrate() is invoked only after the
\* pre-migration snapshot of the target was created with status COMPLETED.
C13_SnapshotBeforeMigrate ==
    jpc = "engine" /\ ~is_dry_run => snapshot_status = "COMPLETED"

\* a foreign key of the second pass could not be created
FkFailureLogged == \E i \in DOMAIN migration_log : migration_log[i].msg = "FK failed"

\* every foreign key of the migrated tables was attempted and logged
AllFksAttempted ==
    \A i \in DOMAIN ForeignKeys(tables_to_migrate) :
        \/ Logged(LogEntry("Created FK", FkName(ForeignKeys(tables_to_migrate)[i])))
        \/ Logged(LogEntry("FK failed", FkName(ForeignKeys(tables_to_migrate)[i])))

\* C16: a foreign key that cannot be created in the second pass is only a
\* warning: the remaining constraints are attempted, the data phase runs, and
\* a run in which nothing else fails and nobody cancels returns success.
C16_FkFailureIsWarning ==
    /\ FkFailureLogged
    /\ faults + fk_faults = MaxFaults
    /\ ~at_cancel.accepted
    /\ pc = "done"
    => AllFksAttempted /\ result.success

\* the phase of the run of migrate() at a position of the engine
Phase(p, e) ==
    CASE p \in {"idle", "start", "cp_fetch", "get_schema", "cp_analyze", "resolve",
                "native_filter", "cp_schema"} -> "not started"
      [] p \in {"schema_begin"} \cup SchemaLoopPcs -> "schema phase"
      [] p \in {"cp_data", "fetch", "insert", "log_completed", "cp_done",
                "return_ok"} -> "data phase"
      [] p = "done" /\ e = "" -> "completed"
      [] p \in {"failed", "rollback", "done"} /\ e = CancelText -> "cancelled"
      [] p \in {"failed", "rollback", "done"} /\ e # "" -> "failed"
      [] OTHER -> "outside"

PhaseSteps ==
    {<<"not started", "schema phase">>, <<"schema phase", "data phase">>,
     <<"data phase", "completed">>} \cup
    {<<from, to>> \in {"not started", "schema phase", "data phase"} \X
                      {"failed", "cancelled"} : TRUE} \cup
    {<<ph, ph>> : ph \in {"not started", "schema phase", "data phase", "completed",
                          "failed", "cancelled"}}

\* the schema step is over for every table of the ordered list
SchemaFinished ==
    \A i \in DOMAIN tables_to_migrate :
        \/ Logged(LogEntry("Created table", tables_to_migrate[i]))
        \/ Logged(LogEntry("Collection exists (skipping)", tables_to_migrate[i]))

\* C21: a run moves only along not started, schema phase, data phase,
\* completed, or from a non-terminal phase to failed or cancelled; a row is
\* fetched or inserted only in the data phase, after the schema step of every
\* table; once the result is returned the target is not touched again.
C21_PhaseOrder ==
    [][/\ <<Phase(pc, error), Phase(pc', error')>> \in PhaseSteps
       /\ fetched' # fetched \/ pending' # pending \/ migrated_rows' # migrated_rows
             => Phase(pc, error) = "data phase" /\ SchemaFinished
       /\ pc = "done" => UNCHANGED targetVars]_vars

C21_Witness ==
    /\ pc = "done"
    /\ result.success
    /\ Len(tables_to_migrate) >= 2
    /\ migrated_rows > 0
    /\ "create" \in target_ops
    /\ "insert" \in target_ops

\* C22 (as stated): on every relational target, SQLite included, a foreign
\* key is sent only when every table of the ordered list has been created.
C22_Original == \A f \in fk_issued : f.missing = 0

\* C22: on a PostgreSQL or MySQL target a foreign key is sent only in the
\* pass after the last CREATE TABLE; on a SQLite target there is no such pass,
\* a foreign key is a clause of the CREATE TABLE of its own table; a MongoDB
\* target gets no foreign key.
C22_FkSecondPass ==
    /\ target_db_type \in {"postgresql", "mysql"} =>
          \A f \in fk_issued : f.missing = 0 /\ Logged(LogEntry("Adding foreign keys", ""))
    /\ target_db_type = "sqlite" =>
          /\ fk_queue = <<>>
          /\ \A f \in fk_issued : Logged(LogEntry("Created table", f.table))
    /\ target_db_type = "mongodb" => fk_issued = {}

C22_Witness ==
    /\ pc = "done"
    /\ result.success
    /\ target_db_type \in {"postgresql", "mysql"}
    /\ Len(tables_to_migrate) = 3
    /\ Cardinality(fk_issued) = 2

\* the schema phase of the run has ended without an exception
AfterSchemaPhase == Phase(pc, error) \in {"data phase", "completed"}

\* the documents of _dblens_relationships for one foreign key
DocsFor(from, to) ==
    {i \in DOMAIN relationships :
        relationships[i] = [from_collection |-> from, to_collection |-> to]}

InsertStep == pc = "insert" /\ (pending' > pending \/ loaded' # loaded)

\* the rows of the current table sent so far, after this step
SentAfter == IF pc' = "insert" THEN pending' ELSE SourceRows[CurrentTable]

\* C25: on every target the rows of a table are inserted in consecutive
\* batches of at most batch_size rows (1,000 in the code), each batch starting
\* where the one before ended, and the last batch completes the rows fetched.
C25_Batches ==
    [][InsertStep =>
          /\ SentAfter - pending \in 1..batch_size
          /\ pc' # "insert" =>
                target_rows'[CurrentTable] =
                    target_rows[CurrentTable] + SourceRows[CurrentTable]]_vars

RECURSIVE FetchedRows(_)
\* the rows fetched from the source for the tables of a list
FetchedRows(names) ==
    IF names = <<>> THEN 0
    ELSE SourceRows[Head(names)] + FetchedRows(Tail(names))

\* the rows this run has added to table t of the target: a table created by
\* the run starts empty, a table the run has not created keeps the rows it had
InsertedRows(t) ==
    target_rows[t] -
        (IF t \notin Range(created) /\ t \in target_before THEN 1 ELSE 0)

RECURSIVE InsertedTotal(_)
InsertedTotal(names) ==
    IF names = <<>> THEN 0
    ELSE InsertedRows(Head(names)) + InsertedTotal(Tail(names))

\* C26: on success total_rows is the sum of the rows fetched for the migrated
\* tables, which is the number of rows this run inserted into the target; a
\* failure or a cancellation reports no row count.
C26_RowCount ==
    /\ pc = "done" /\ result.success =>
          /\ result.total_rows = FetchedRows(tables_to_migrate)
          /\ result.total_rows = InsertedTotal(tables_to_migrate)
          /\ result.total_tables = Len(tables_to_migrate)
          /\ loaded = Range(tables_to_migrate)
    /\ ReturnedFailure => result.total_rows = 0 /\ result.total_tables = 0

C26_Witness ==
    /\ pc = "done"
    /\ result.success
    /\ result.total_rows = 5
    /\ result.total_tables = 3
    /\ Logged(LogEntry("Collection exists (skipping)", "customers"))

\* C28: a job started with is_dry_run = true never executes a create, drop,
\* alter or insert statement on the target: the tables and the row counts of
\* the target stay what they were before the job.
C28_DryRunWritesNothing ==
    is_dry_run =>
        /\ target_ops = {}
        /\ target_tables = target_before
        /\ \A t \in DOMAIN target_rows :
               target_rows[t] = (IF t \in target_before THEN 1 ELSE 0)

\* C27: of two jobs that run at the same time with different migration ids, a
\* job for which no cancel request was accepted is never stopped or marked by
\* the other job's cancel request: it raises nothing, is not CANCELLED, has no
\* entry in CANCEL_REQUESTS, and ends COMPLETED after its last checkpoint.
C27_CancelIsolated ==
    \A migration_id \in DOMAIN jobs :
        ~jobs[migration_id].cancel_accepted =>
            /\ migration_id \notin DOMAIN CANCEL_REQUESTS
            /\ jobs[migration_id].pc # "raised"
            /\ jobs[migration_id].status # "CANCELLED"
            /\ jobs[migration_id].error_message = ""
            /\ jobs[migration_id].pc = "returned" =>
                  /\ jobs[migration_id].status = "COMPLETED"
                  /\ jobs[migration_id].step = Len(Checkpoints)

C27_Witness ==
    /\ DOMAIN jobs = JobIds
    /\ jobs[1].pc = "returned"
    /\ jobs[1].status = "FAILED"
    /\ jobs[1].error_message = CancelText
    /\ jobs[2].pc = "returned"
    /\ jobs[2].status = "COMPLETED"
    /\ jobs[2].saw_foreign
    /\ ~jobs[2].cancel_accepted

\* C30: at most one run_rollback_job is in flight for a migration: a job is
\* started only by a request that found status COMPLETED or FAILED, can_rollback
\* and a COMPLETED pre-migration snapshot, and while a job is in flight no
\* second job is started, whatever the order of the requests' steps.
C30_OneRollbackInFlight ==
    /\ Cardinality(InFlight) <= 1
    /\ \A j \in DOMAIN rollback_jobs :
          /\ rollback_jobs[j].others = 0
          /\ MayRollback(rollback_requests[rollback_jobs[j].request].row)

(***************************************************************************)
(* Claims about preview_migration and get_schema                           *)
(***************************************************************************)

\* C14: the preview executes no create, drop or insert, and its warnings name
\* exactly the selected tables that exist in the target.
C14_PreviewWarnings ==
    pc = "previewed" =>
        /\ target_ops = {}
        /\ target_tables = target_before
        /\ Range(preview.warnings) = selected_tables \cap target_before

\* C17: a failure of the row count of one table does not fail get_schema: it
\* returns success = true with every table described.
C17_RowCountBestEffort ==
    pc = "previewed" /\ inspect_fault.side = "source" /\ inspect_fault.kind = "count" =>
        /\ source_schema.success
        /\ Names(source_schema.tables) = Names(schema_tables)

(***************************************************************************)
(* Claims about create_migration                                           *)
(***************************************************************************)

\* C15: no job is created whose source and target connections have the same
\* (engine, host, database name) triple, also when they are two records.
C15_DistinctDatabases ==
    \A m \in migrations :
        Triple(connections[m.source_connection_id]) #
        Triple(connections[m.target_connection_id])

(***************************************************************************)
(* Claims about DataTypeMapper (checked under SpecMapper)                  *)
(***************************************************************************)

Mapped(source_db, target_db) ==
    pc = "mapped" /\ source_db_type = source_db /\ target_db_type = target_db

\* C18: MySQL to PostgreSQL gives a tinyint(1) column the type boolean, and
\* PostgreSQL to MySQL gives a boolean column the type tinyint(1).
C18_TinyintBoolean ==
    /\ Mapped("mysql", "postgresql") /\ lower(column.type) = TINYINT_1
          => col_type = <<"boolean">>
    /\ Mapped("postgresql", "mysql") /\ lower(column.type) = <<"boolean">>
          => col_type = TINYINT_1

\* the type name of the source column, without suffix and modifiers
SourceBase == split_paren_0(lower(column.type))

\* the length or precision of the source column, as "(n)" or "(p,s)"
SourceSuffix ==
    IF Contains(column.type, "(") THEN ParenPart(column.type)
    ELSE IF column.length # "" THEN <<"(", column.length, ")">>
    ELSE <<>>

TargetSuffix == IF Contains(col_type, "(") THEN ParenPart(col_type) ELSE <<>>

\* C19: between MySQL and PostgreSQL, in both directions, a char, varchar,
\* decimal or numeric column with a length or precision keeps that suffix in
\* the target type, and an enum or set column gets text or varchar(255),
\* without its value list.
C19_SuffixPreserved ==
    Mapped("mysql", "postgresql") \/ Mapped("postgresql", "mysql") =>
        /\ /\ SourceBase \in {<<"char">>, <<"varchar">>, <<"character">>,
                              <<"character varying">>, <<"decimal">>, <<"numeric">>}
           /\ SourceSuffix # <<>>
           => TargetSuffix = SourceSuffix
        /\ SourceBase \in {<<"enum">>, <<"set">>} =>
              lower(col_type) \in {<<"text">>, VARCHAR_255}

\* the keys of a dictionary
Keys(dict) == {p[1] : p \in dict}

\* the mapping table of a pair of families
PairTable(source_db, target_db) ==
    CASE target_db = "sqlite" -> SQLITE_TYPE_MAP
      [] source_db = "mysql" /\ target_db = "postgresql" -> MYSQL_TO_POSTGRESQL
      [] source_db = "postgresql" /\ target_db = "mysql" -> POSTGRESQL_TO_MYSQL
      [] source_db = "sqlite" /\ target_db = "postgresql" -> sqlite_to_pg
      [] source_db = "mongodb" /\ target_db = "postgresql" -> mongo_to_pg
      [] source_db = "sqlite" /\ target_db = "mysql" ->
            sqlite_to_mysql(column.is_primary_key)
      [] source_db = "mongodb" /\ target_db = "mysql" -> mongo_to_mysql
      [] OTHER -> {}

\* neither the type string nor its base name is a key of the pair's table
Unrecognized ==
    {lower(column.type), SourceBase} \cap
        Keys(PairTable(source_db_type, target_db_type)) = {}

\* C29: for every relational target, a source column that is not nullable
\* is declared NOT NULL in the target table, and a nullable one is not.
C29_NotNullPreserved ==
    pc = "mapped" /\ target_db_type \in {"postgresql", "mysql", "sqlite"} =>
        (not_null <=> ~column.nullable)

\* C20: between two different families with an SQL target, a type that is not
\* in the mapping table of the pair becomes the text type of the target
\* (text / TEXT), never the source type string.
C20_UnknownTypeIsText ==
    /\ pc = "mapped"
    /\ source_db_type # target_db_type
    /\ target_db_type # "mongodb"
    /\ column.name # "_id"
    /\ Unrecognized
    => lower(col_type) = <<"text">>

====
